---- MODULE Spec2Model ----
(***************************************************************************)
(* A model of levitation.py: the conversion of a MediaWiki XML dump into a *)
(* git fast-import stream in two passes over fixed-width sidecar files.    *)
(*                                                                         *)
(* Representation.  A text is a sequence of Unicode code points.  A byte   *)
(* string is a sequence of numbers in 0..255.  A Python integer that comes *)
(* from the dump (an id, an address) is kept as its little-endian base-256 *)
(* digits without trailing zeros, so that 64- and 128-bit values are       *)
(* exact; small integers the program computes with are plain numbers.  A   *)
(* file is the sequence of its bytes.  An optional value is <<>> (absent)  *)
(* or <<v>> (present).                                                     *)
(***************************************************************************)
EXTENDS Integers, Sequences, FiniteSets, TLC

VARIABLES
    pc,       \* position of the running process, per specification
    disk,     \* the sidecar files, by option name: each a byte sequence
    meta,     \* the in-memory meta dict: domain, nstoid, idtons, max_upload
    stdout,   \* the fast-import stream written so far, one entry per record
    call,     \* arguments of the last store or function call (history)
    ret,      \* what that call returned (history)
    opts,     \* the options of the running process
    sm,       \* the StackManager: active frame and stack
    cap,      \* the Capture objects: dom and current node of each
    bw,       \* the BlobWriter: imported, canceled, page
    cm,       \* the Committer: how many infos its loop has consumed
    xml,      \* the document on standard input and how far it has been read
    seen,     \* what of the dump has been processed so far (history)
    before,   \* the StackManager before the start of each open element (history)
    fh        \* the stores whose file handle is open

pipe == <<opts, sm, cap, bw, cm, xml, seen, before, fh>>

vars == <<pc, disk, meta, stdout, call, ret, opts, sm, cap, bw, cm, xml, seen,
          before, fh>>

(***************************************************************************)
(* Bounds of the model.                                                    *)
(***************************************************************************)
MaxNum == 6        \* ids given to the mark functions: 0..MaxNum
MaxSlot == 2       \* slots written by the store calls: 0..MaxSlot
MaxWrites == 2     \* store calls in one behaviour of SpecStore
MaxTail == 2       \* code points after the padding of a stored text
MaxRuns == 2       \* Pass 1 runs in one behaviour; one Pass 2 run ends it
MaxPages == 2      \* <page> elements in one behaviour
MaxItems == 2      \* <revision> and <upload> elements in one behaviour
MaxNs == 3         \* <namespace> elements a behaviour chooses freely
MaxOdd == 1        \* departures from the plain dump, aborts included
MaxElems == 4      \* elements of a document of arbitrary shape
MaxDepth == 3      \* nesting of a document of arbitrary shape
MaxTexts == 2      \* text events of a document of arbitrary shape

(***************************************************************************)
(* Bytes and integers.                                                     *)
(***************************************************************************)
Zeros(n) == [i \in 1..n |-> 0]

Take(s, n) == SubSeq(s, 1, IF n < Len(s) THEN n ELSE Len(s))

Drop(s, n) == SubSeq(s, n + 1, Len(s))

RECURSIVE Trim(_)
Trim(b) == IF b # <<>> /\ b[Len(b)] = 0 THEN Trim(SubSeq(b, 1, Len(b) - 1)) ELSE b

RECURSIVE FromInt(_)
FromInt(n) == IF n = 0 THEN <<>> ELSE <<n % 256>> \o FromInt(n \div 256)

RECURSIVE Val(_)
Val(b) == IF b = <<>> THEN 0 ELSE b[1] + 256 * Val(Tail(b))

\* struct: an unsigned field of n bytes, little-endian; the value must fit
PackFits(b, n) == Len(b) <= n

PackLE(b, n) == b \o Zeros(n - Len(b))

UnpackLE(bytes) == Trim(bytes)

(***************************************************************************)
(* Text: UTF-8 (ENCODING), int(), str().                                   *)
(***************************************************************************)
\* bytes(c, 'UTF-8') of one code point
Utf8(c) ==
    IF c < 128 THEN <<c>>
    ELSE IF c < 2048 THEN <<192 + (c \div 64), 128 + (c % 64)>>
    ELSE IF c < 65536 THEN
        <<224 + (c \div 4096), 128 + ((c \div 64) % 64), 128 + (c % 64)>>
    ELSE <<240 + (c \div 262144), 128 + ((c \div 4096) % 64),
           128 + ((c \div 64) % 64), 128 + (c % 64)>>

RECURSIVE EncodeRange(_, _, _)
EncodeRange(text, lo, hi) ==
    IF lo > hi THEN <<>>
    ELSE IF lo = hi THEN Utf8(text[lo])
    ELSE LET mid == (lo + hi) \div 2
         IN EncodeRange(text, lo, mid) \o EncodeRange(text, mid + 1, hi)

\* bytes(text, ENCODING)
Encode(text) == EncodeRange(text, 1, Len(text))

IsCont(b) == b >= 128 /\ b <= 191

\* the number of bytes of the sequence that starts with lead byte b, 0 if
\* b cannot start one
SeqLen(b) ==
    IF b < 128 THEN 1
    ELSE IF b >= 194 /\ b <= 223 THEN 2
    ELSE IF b >= 224 /\ b <= 239 THEN 3
    ELSE IF b >= 240 /\ b <= 244 THEN 4
    ELSE 0

\* is the sequence of SeqLen(ba[i]) bytes at i complete and well formed?
GoodAt(ba, i) ==
    LET n == SeqLen(ba[i])
    IN /\ n > 0
       /\ i + n - 1 <= Len(ba)
       /\ \A k \in 1..(n - 1) : IsCont(ba[i + k])
       /\ ba[i] = 224 => ba[i + 1] >= 160
       /\ ba[i] = 237 => ba[i + 1] <= 159
       /\ ba[i] = 240 => ba[i + 1] >= 144
       /\ ba[i] = 244 => ba[i + 1] <= 143

CodePointAt(ba, i) ==
    LET n == SeqLen(ba[i])
    IN CASE n = 1 -> ba[i]
         [] n = 2 -> (ba[i] - 192) * 64 + (ba[i + 1] - 128)
         [] n = 3 -> (ba[i] - 224) * 4096 + (ba[i + 1] - 128) * 64
                     + (ba[i + 2] - 128)
         [] n = 4 -> (ba[i] - 240) * 262144 + (ba[i + 1] - 128) * 4096
                     + (ba[i + 2] - 128) * 64 + (ba[i + 3] - 128)

\* the positions where a sequence starts: the bytes that continue none
Leads(ba) == {i \in 1..Len(ba) : ~IsCont(ba[i])}

\* the well-formed sequences tile ba
ValidUtf8(ba) ==
    LET L == Leads(ba)
    IN /\ ba # <<>> => 1 \in L
       /\ \A i \in L :
            /\ GoodAt(ba, i)
            /\ \/ i + SeqLen(ba[i]) = Len(ba) + 1
               \/ i + SeqLen(ba[i]) \in L

\* the last position at or before i where a sequence starts
LeadBefore(ba, i) == CHOOSE j \in (i - 3)..i :
    /\ j >= 1 /\ ~IsCont(ba[j])
    /\ \A k \in (j + 1)..i : IsCont(ba[k])

RECURSIVE DecodeRange(_, _, _)
\* the code points of the valid bytes lo..hi, halving the range
DecodeRange(ba, lo, hi) ==
    IF lo > hi THEN <<>>
    ELSE IF lo + SeqLen(ba[lo]) > hi THEN <<CodePointAt(ba, lo)>>
    ELSE LET m0 == LeadBefore(ba, (lo + hi + 1) \div 2)
             m  == IF m0 > lo THEN m0 ELSE lo + SeqLen(ba[lo])
         IN DecodeRange(ba, lo, m - 1) \o DecodeRange(ba, m, hi)

\* ba.decode(ENCODING): <<text>>, or <<>> for a UnicodeDecodeError
Decode(ba) == IF ValidUtf8(ba) THEN <<DecodeRange(ba, 1, Len(ba))>> ELSE <<>>

IsDigit(c) == c >= 48 /\ c <= 57

RECURSIVE MulAdd(_, _, _)
MulAdd(b, m, c) ==
    IF b = <<>> THEN FromInt(c)
    ELSE LET v == b[1] * m + c
         IN IF Tail(b) = <<>> /\ v = 0 THEN <<>>
            ELSE <<v % 256>> \o MulAdd(Tail(b), m, v \div 256)

RECURSIVE ParseDigits(_, _, _)
ParseDigits(text, i, acc) ==
    IF i > Len(text) THEN acc
    ELSE ParseDigits(text, i + 1, MulAdd(acc, 10, text[i] - 48))

\* int(text) for the texts of the model, which are unsigned and unpadded:
\* <<n>>, or <<>> for a ValueError
ParseInt(text) ==
    IF text # <<>> /\ \A i \in 1..Len(text) : IsDigit(text[i])
    THEN <<ParseDigits(text, 1, <<>>)>>
    ELSE <<>>

RECURSIVE Decimal(_)
\* str(n) of a small non-negative number
Decimal(n) == IF n < 10 THEN <<48 + n>> ELSE Decimal(n \div 10) \o <<48 + (n % 10)>>

(***************************************************************************)
(* Files: seek and write, seek and read.                                   *)
(***************************************************************************)
\* a variant of FileWriteAt that truncates the file at the end of the write
FileWriteAtTruncating(f, off, data) ==
    IF off >= Len(f) THEN f \o Zeros(off - Len(f)) \o data
    ELSE Take(f, off) \o data

\* fh.seek(off); fh.write(data): a seek past the end leaves a gap of zeros
FileWriteAt(f, off, data) ==
    IF off >= Len(f) THEN f \o Zeros(off - Len(f)) \o data
    ELSE Take(f, off) \o data \o Drop(f, off + Len(data))

\* fh.seek(off); fh.read(n): short at the end of the file
FileReadAt(f, off, n) ==
    SubSeq(f, off + 1, IF off + n < Len(f) THEN off + n ELSE Len(f))

(***************************************************************************)
(* StringStore: records of struct '=BI255s'.                               *)
(***************************************************************************)
TextMax == 255

StringStructSize == 1 + 4 + TextMax

RECURSIVE TrimLoop(_, _)
\* while len(ba) > 255: ba = bytes(text, ENCODING); text = text[:-1]
TrimLoop(ba, text) ==
    IF Len(ba) > TextMax
    THEN TrimLoop(Encode(text), SubSeq(text, 1, Len(text) - 1))
    ELSE ba

\* a variant of StringStoreTrim that cuts the bytes, not the code points
StringStoreTrimBytes(text) == Take(Encode(text), TextMax)

\* the bytes StringStore.write stores for text
StringStoreTrim(text) ==
    LET ba == Encode(text)
    IN TrimLoop(ba, IF Len(ba) > TextMax THEN Take(text, TextMax) ELSE text)

StringStorePack(len, flags, ba) ==
    <<len>> \o PackLE(flags, 4) \o ba \o Zeros(TextMax - Len(ba))

\* StringStore.write(id, text, flags) on the file f; id is a number, flags
\* an integer.  [ok, f]: ok is FALSE when struct.pack raises.
StringStoreWrite(f, id, text, flags) ==
    LET ba == StringStoreTrim(text)
    IN IF ~PackFits(flags, 4) THEN [ok |-> FALSE, f |-> f]
       ELSE [ok |-> TRUE,
             f  |-> FileWriteAt(f, id * StringStructSize,
                                StringStorePack(Len(ba), flags, ba))]

\* StringStore.read(id): [ok, len, flags, text]; ok is FALSE when the
\* stored bytes do not decode
StringStoreRead(f, id) ==
    LET packed == FileReadAt(f, id * StringStructSize, StringStructSize)
    IN IF Len(packed) < StringStructSize
       THEN [ok |-> TRUE, len |-> 0, flags |-> <<>>, text |-> <<>>]
       ELSE LET len  == packed[1]
                text == Decode(SubSeq(packed, 6, 5 + len))
            IN [ok    |-> text # <<>>,
                len   |-> len,
                flags |-> UnpackLE(SubSeq(packed, 2, 5)),
                text  |-> IF text # <<>> THEN text[1] ELSE <<>>]

(***************************************************************************)
(* Timestamps and addresses.                                               *)
(***************************************************************************)
Num2(text, i) == (text[i] - 48) * 10 + (text[i + 1] - 48)

\* datetime.strptime(text, "%Y-%m-%dT%H:%M:%SZ") for texts in the fixed-width
\* form the dumps use: <<datetime>>, or <<>> for a ValueError
ParseTimestamp(text) ==
    IF /\ Len(text) = 20
       /\ \A i \in {1, 2, 3, 4, 6, 7, 9, 10, 12, 13, 15, 16, 18, 19} :
              IsDigit(text[i])
       /\ text[5] = 45 /\ text[8] = 45 /\ text[11] = 84
       /\ text[14] = 58 /\ text[17] = 58 /\ text[20] = 90
       /\ Num2(text, 6) \in 1..12 /\ Num2(text, 9) \in 1..31
       /\ Num2(text, 12) < 24 /\ Num2(text, 15) < 60 /\ Num2(text, 18) < 62
    THEN <<[y  |-> Num2(text, 1) * 100 + Num2(text, 3),
            mo |-> Num2(text, 6), d |-> Num2(text, 9),
            h  |-> Num2(text, 12), mi |-> Num2(text, 15),
            s  |-> Num2(text, 18)]>>
    ELSE <<>>

\* calendar.timegm(time.utctimetuple()): seconds since 1970-01-01
timegm(t) ==
    LET y   == IF t.mo <= 2 THEN t.y - 1 ELSE t.y
        era == y \div 400
        yoe == y - era * 400
        mp  == IF t.mo > 2 THEN t.mo - 3 ELSE t.mo + 9
        doy == ((153 * mp + 2) \div 5) + t.d - 1
        doe == yoe * 365 + (yoe \div 4) - (yoe \div 100) + doy
        days == era * 146097 + doe - 719468
    IN days * 86400 + t.h * 3600 + t.mi * 60 + t.s

RECURSIVE SplitAt(_, _, _, _)
\* text.split(sep): the sequence of the parts of text between the seps
SplitAt(text, sep, i, cur) ==
    IF i > Len(text) THEN <<cur>>
    ELSE IF text[i] = sep THEN <<cur>> \o SplitAt(text, sep, i + 1, <<>>)
    ELSE SplitAt(text, sep, i + 1, Append(cur, text[i]))

Split(text, sep) == SplitAt(text, sep, 1, <<>>)

OctetOk(part) ==
    /\ Len(part) \in 1..3
    /\ \A i \in 1..Len(part) : IsDigit(part[i])
    /\ Val(ParseDigits(part, 1, <<>>)) <= 255

\* the value of a hexadecimal digit, 16 for any other character
HexVal(c) ==
    IF c >= 48 /\ c <= 57 THEN c - 48
    ELSE IF c >= 97 /\ c <= 102 THEN c - 87
    ELSE IF c >= 65 /\ c <= 70 THEN c - 55
    ELSE 16

HextetOk(part) ==
    /\ Len(part) \in 1..4
    /\ \A i \in 1..Len(part) : HexVal(part[i]) < 16

RECURSIVE HextetInt(_, _, _)
HextetInt(part, i, acc) ==
    IF i > Len(part) THEN acc
    ELSE HextetInt(part, i + 1, acc * 16 + HexVal(part[i]))

\* int(ipaddress.IPv6Address(text)) for a text of hextets with at most one
\* "::" (no embedded IPv4 address, no zone): <<n>>, or <<>> for a ValueError
IPv6Int(text) ==
    LET parts == Split(text, 58)
        n     == Len(parts)
        skips == {i \in 2..(n - 1) : parts[i] = <<>>}
        skip  == CHOOSE i \in skips : TRUE
        hi    == IF skips = {} THEN 8
                 ELSE IF parts[1] = <<>> THEN skip - 2 ELSE skip - 1
        lo    == IF skips = {} THEN 0
                 ELSE IF parts[n] = <<>> THEN n - skip - 1 ELSE n - skip
        h     == [k \in 1..8 |->
                     IF k <= hi THEN HextetInt(parts[k], 1, 0)
                     ELSE IF k > 8 - lo THEN HextetInt(parts[n - (8 - k)], 1, 0)
                     ELSE 0]
    IN IF n < 3 \/ n > 9 \/ Cardinality(skips) > 1 THEN <<>>
       ELSE IF skips = {} /\ n # 8 THEN <<>>
       ELSE IF skips # {} /\ parts[1] = <<>> /\ hi # 0 THEN <<>>
       ELSE IF skips # {} /\ parts[n] = <<>> /\ lo # 0 THEN <<>>
       ELSE IF skips # {} /\ hi + lo > 7 THEN <<>>
       ELSE IF \E k \in (1..hi) \cup ((n - lo + 1)..n) : ~HextetOk(parts[k]) THEN <<>>
       ELSE <<Trim([j \in 1..16 |->
                      IF j % 2 = 1 THEN h[8 - ((j - 1) \div 2)] % 256
                      ELSE h[8 - ((j - 1) \div 2)] \div 256])>>

\* int(ipaddress.ip_address(text)): the text is taken for a dotted-quad IPv4
\* address if it is one, and for an IPv6 address otherwise: <<n>>, or <<>>
\* for a ValueError
ip_address_int(text) ==
    LET parts == Split(text, 46)
    IN IF Len(parts) = 4 /\ \A k \in 1..4 : OctetOk(parts[k])
       THEN <<Trim([k \in 1..4 |-> Val(ParseDigits(parts[5 - k], 1, <<>>))])>>
       ELSE IPv6Int(text)

RECURSIVE Join(_, _)
Join(parts, sep) ==
    IF parts = <<>> THEN <<>>
    ELSE IF Len(parts) = 1 THEN parts[1]
    ELSE parts[1] \o <<sep>> \o Join(Tail(parts), sep)

HexDigit(d) == IF d < 10 THEN 48 + d ELSE 87 + d

RECURSIVE Hex(_)
Hex(n) == IF n < 16 THEN <<HexDigit(n)>> ELSE Hex(n \div 16) \o <<HexDigit(n % 16)>>

Hextets(b) ==
    LET p == PackLE(b, 16)
    IN [k \in 1..8 |-> p[18 - 2 * k] * 256 + p[17 - 2 * k]]

RECURSIVE ZeroRun(_, _)
ZeroRun(h, i) == IF i <= Len(h) /\ h[i] = 0 THEN 1 + ZeroRun(h, i + 1) ELSE 0

\* str(IPv6Address(n)): the hextets in hexadecimal, the first longest run of
\* two or more zero hextets written as "::"
IPv6Str(b) ==
    LET h    == Hextets(b)
        best == CHOOSE i \in 1..8 :
                    /\ \A j \in 1..8 : ZeroRun(h, j) <= ZeroRun(h, i)
                    /\ \A j \in 1..(i - 1) : ZeroRun(h, j) < ZeroRun(h, i)
        len  == ZeroRun(h, best)
        hex  == [k \in 1..8 |-> Hex(h[k])]
    IN IF len > 1
       THEN Join(SubSeq(hex, 1, best - 1), 58) \o <<58, 58>>
            \o Join(SubSeq(hex, best + len, 8), 58)
       ELSE Join(hex, 58)

IPv4Str(b) ==
    LET p == PackLE(b, 4)
    IN Join([k \in 1..4 |-> Decimal(p[5 - k])], 46)

\* str(ipaddress.ip_address(n)) of an integer below 2^128: an integer below
\* 2^32 is taken for an IPv4 address
ip_address_str(b) == IF Len(b) <= 4 THEN IPv4Str(b) ELSE IPv6Str(b)

(***************************************************************************)
(* MetaStore: records of struct '=LLLQQB'.                                 *)
(***************************************************************************)
MetaStructSize == 4 + 4 + 4 + 8 + 8 + 1

\* a variant of MetaFlags that leaves the minor bit out
MetaFlagsNoMinor(author, minor, upload) ==
    (IF author.isip THEN 2 ELSE 0) + (IF author.isdel THEN 4 ELSE 0)
    + (IF upload THEN 8 ELSE 0)

MetaFlags(author, minor, upload) ==
    (IF minor THEN 1 ELSE 0) + (IF author.isip THEN 2 ELSE 0)
    + (IF author.isdel THEN 4 ELSE 0) + (IF upload THEN 8 ELSE 0)

\* a variant of MetaStorePack with the author in two fields of four bytes
MetaStorePackNarrow(rev, epoch, page, author, flags) ==
    PackLE(rev, 4) \o PackLE(FromInt(epoch), 4) \o PackLE(page, 4)
    \o PackLE(Trim(Take(Drop(author.id, 4), 4)), 4)
    \o PackLE(Trim(Take(author.id, 4)), 4)
    \o <<flags>>

MetaStorePack(rev, epoch, page, author, flags) ==
    PackLE(rev, 4) \o PackLE(FromInt(epoch), 4) \o PackLE(page, 4)
    \o PackLE(Trim(Take(Drop(author.id, 8), 8)), 8)
    \o PackLE(Trim(Take(author.id, 8)), 8)
    \o <<flags>>

\* MetaStore.write(rev, time, page, author, minor, upload) on the file f.
\* rev and page are integers, time and author are optional (None in the
\* code).  [ok, f]: ok is FALSE when an attribute of None is read or
\* struct.pack raises.
MetaStoreWrite(f, rev, time, page, author, minor, upload) ==
    IF \/ author = <<>> \/ time = <<>>
       \/ ~PackFits(rev, 4) \/ ~PackFits(page, 4)
       \/ timegm(time[1]) < 0 \/ ~PackFits(FromInt(timegm(time[1])), 4)
    THEN [ok |-> FALSE, f |-> f]
    ELSE [ok |-> TRUE,
          f  |-> FileWriteAt(f, Val(rev) * MetaStructSize,
                     MetaStorePack(rev, timegm(time[1]), page, author[1],
                                   MetaFlags(author[1], minor, upload)))]

\* MetaStore.read(rev): <<>> for None, else <<d>>.  The entries 'time' and
\* 'day' of d, which only feed progress lines, are left out.
MetaStoreRead(f, rev) ==
    LET data == FileReadAt(f, rev * MetaStructSize, MetaStructSize)
    IN IF Len(data) < MetaStructSize THEN <<>>
       ELSE LET flags == data[29]
                user  == Trim(SubSeq(data, 21, 28) \o SubSeq(data, 13, 20))
                isip  == (flags \div 2) % 2 = 1
            IN <<[rev    |-> Val(SubSeq(data, 1, 4)),
                  epoch  |-> Val(SubSeq(data, 5, 8)),
                  page   |-> Val(SubSeq(data, 9, 12)),
                  user   |-> IF isip THEN ip_address_str(user) ELSE user,
                  minor  |-> flags % 2 = 1,
                  isip   |-> isip,
                  isdel  |-> (flags \div 4) % 2 = 1,
                  upload |-> (flags \div 8) % 2 = 1,
                  exists |-> Val(SubSeq(data, 1, 4)) # 0]>>

(***************************************************************************)
(* More conversions: base64, URLs, decimal.                                *)
(***************************************************************************)
IsB64(c) ==
    \/ (c >= 65 /\ c <= 90)
    \/ (c >= 97 /\ c <= 122)
    \/ (c >= 48 /\ c <= 57)
    \/ c \in {43, 47}

B64Val(c) ==
    IF c >= 65 /\ c <= 90 THEN c - 65
    ELSE IF c >= 97 /\ c <= 122 THEN c - 71
    ELSE IF c >= 48 /\ c <= 57 THEN c + 4
    ELSE IF c = 43 THEN 62
    ELSE 63

\* the bytes of the four characters at i; "=" pads the last group
B64Quad(text, i) ==
    LET pad == IF text[i + 2] = 61 THEN 2 ELSE IF text[i + 3] = 61 THEN 1 ELSE 0
        n   == B64Val(text[i]) * 262144 + B64Val(text[i + 1]) * 4096
               + (IF pad = 2 THEN 0 ELSE B64Val(text[i + 2]) * 64)
               + (IF pad >= 1 THEN 0 ELSE B64Val(text[i + 3]))
    IN SubSeq(<<n \div 65536, (n \div 256) % 256, n % 256>>, 1, 3 - pad)

RECURSIVE B64From(_, _)
B64From(text, i) ==
    IF i > Len(text) THEN <<>> ELSE B64Quad(text, i) \o B64From(text, i + 4)

\* base64.b64decode(text) for a text of whole groups of the alphabet:
\* <<bytes>>, or <<>> for a binascii.Error
b64decode(text) ==
    IF /\ Len(text) % 4 = 0
       /\ \A i \in 1..Len(text) :
            \/ IsB64(text[i])
            \/ text[i] = 61 /\ i >= Len(text) - 1
               /\ (i = Len(text) - 1 => text[Len(text)] = 61)
    THEN <<B64From(text, 1)>>
    ELSE <<>>

IsSchemeChar(c) ==
    \/ (c >= 97 /\ c <= 122)
    \/ (c >= 65 /\ c <= 90)
    \/ (c >= 48 /\ c <= 57)
    \/ c \in {43, 45, 46}

Lower(c) == IF c >= 65 /\ c <= 90 THEN c + 32 ELSE c

\* urllib.parse.urlparse(text).hostname for a text "scheme://host/..." or
\* "//host/..." without user or port: <<host>>, or <<>> for None
Hostname(text) ==
    LET starts == {i \in 1..(Len(text) - 1) :
                     /\ text[i] = 47 /\ text[i + 1] = 47
                     /\ \/ i = 1
                        \/ /\ i > 2 /\ text[i - 1] = 58
                           /\ \A k \in 1..(i - 2) : IsSchemeChar(text[k])}
    IN IF starts = {} THEN <<>>
       ELSE LET b   == (CHOOSE i \in starts : \A j \in starts : i <= j) + 2
                 stops == {i \in b..Len(text) : text[i] \in {47, 63, 35, 58}}
                 e   == IF stops = {} THEN Len(text)
                        ELSE (CHOOSE i \in stops : \A j \in stops : i <= j) - 1
            IN IF e < b THEN <<>>
               ELSE <<[k \in 1..(e - b + 1) |-> Lower(text[b + k - 1])]>>

RECURSIVE DivTen(_, _)
\* the quotient by ten of the integer with the big-endian digits d, after
\* the remainder r of the digits before: the digits of the quotient, then
\* the last remainder
DivTen(d, r) ==
    IF d = <<>> THEN <<r>>
    ELSE LET v == r * 256 + d[1]
         IN <<v \div 10>> \o DivTen(Tail(d), v % 10)

Reverse(q) == [i \in 1..Len(q) |-> q[Len(q) + 1 - i]]

RECURSIVE IntStr(_)
\* str(n) of an integer of any size
IntStr(b) ==
    IF Len(b) <= 3 THEN Decimal(Val(b))
    ELSE LET q == DivTen(Reverse(b), 0)
         IN IntStr(Trim(Reverse(SubSeq(q, 1, Len(q) - 1)))) \o <<48 + q[Len(q)]>>

(***************************************************************************)
(* The program's state between and during runs.                            *)
(***************************************************************************)
EmptyDict == [x \in {} |-> x]

DictSet(d, k, v) == [x \in DOMAIN d \cup {k} |-> IF x = k THEN v ELSE d[x]]

\* the sidecar files, all empty, and no pickle
NoDisk == [meta |-> <<>>, comm |-> <<>>, uplo |-> <<>>, upco |-> <<>>,
           user |-> <<>>, page |-> <<>>, pkl |-> <<>>]

UnknownInvalid ==
    <<117, 110, 107, 110, 111, 119, 110, 46, 105, 110, 118, 97, 108, 105, 100>>

\* the meta dict as LevitationImport.__init__ builds it; domain is optional
\* (urlparse gives None for a base without a host)
NoMeta == [domain |-> <<UnknownInvalid>>, nstoid |-> EmptyDict,
           idtons |-> EmptyDict, max_upload |-> 0]

(***************************************************************************)
(* xml.dom: a captured subtree is the sequence of its nodes in document    *)
(* order, each with the index of its parent (0 for the root).              *)
(***************************************************************************)
NoAttrs == [key |-> <<>>, deleted |-> <<>>]

ElemNode(tag, attrs, parent) ==
    [kind |-> "e", ns |-> tag.ns, name |-> tag.name, attrs |-> attrs,
     data |-> <<>>, parent |-> parent]

TextNode(content, parent) ==
    [kind |-> "t", ns |-> "", name |-> "", attrs |-> NoAttrs,
     data |-> content, parent |-> parent]

\* node.childNodes, as indices
ChildNodes(dom, i) ==
    SelectSeq([j \in 1..Len(dom) |-> j], LAMBDA j : dom[j].parent = i)

RECURSIVE ConcatData(_, _, _)
ConcatData(dom, kids, k) ==
    IF k > Len(kids) THEN <<>>
    ELSE dom[kids[k]].data \o ConcatData(dom, kids, k + 1)

\* singletext(node): <<text>>, or <<>> for an XMLError
singletext(dom, i) ==
    LET kids == ChildNodes(dom, i)
    IN IF \E k \in 1..Len(kids) : dom[kids[k]].kind # "t" THEN <<>>
       ELSE <<ConcatData(dom, kids, 1)>>

\* int(singletext(node)): <<n>>, or <<>> for an XMLError or ValueError
singleint(dom, i) ==
    IF singletext(dom, i) = <<>> THEN <<>> ELSE ParseInt(singletext(dom, i)[1])

(***************************************************************************)
(* get_mark and the three mark namespaces.                                 *)
(***************************************************************************)
get_mark_stride2(ns, num) == 1 + ns + 2 * num

get_mark(ns, num) == 1 + ns + 3 * num

revision_mark(revision_id) == get_mark(0, revision_id)

\* a variant of commit_mark with a stride of two
commit_mark_stride2(commit_number) == 2 + 2 * commit_number

commit_mark(commit_number) == get_mark(1, commit_number)

\* a variant of upload_mark in the namespace of the revisions
upload_mark_of_revision(upload_number) == get_mark(0, upload_number)

upload_mark(upload_number) == get_mark(2, upload_number)

(***************************************************************************)
(* Pass 1: User, Revision, Page.  A callback works on a world              *)
(* [disk, meta, stdout, bw, err]: the files, the meta dict, the output,    *)
(* the BlobWriter's fields, and the exception raised ("" for none).        *)
(***************************************************************************)
Raise(w, e) == [w EXCEPT !.err = e]

\* one child lv1 of a <contributor> in the loop of User.__init__
UserChild(dom, i, u) ==
    LET Name(txt) ==
            IF txt = <<>> THEN [u EXCEPT !.err = "XMLError"]
            ELSE [u EXCEPT !.name = txt]
        Id(n) ==
            IF n = <<>> THEN [u EXCEPT !.err = "ValueError"]
            ELSE [u EXCEPT !.id = n[1]]
        Address(a) ==
            IF a = <<>> THEN [u EXCEPT !.err = "ValueError"]
            ELSE [u EXCEPT !.isip = TRUE, !.id = a[1]]
        Ip(txt) ==
            IF txt = <<>> THEN [u EXCEPT !.err = "XMLError"]
            ELSE Address(ip_address_int(txt[1]))
    IN IF dom[i].kind # "e" THEN u
       ELSE IF dom[i].name = "username" THEN Name(singletext(dom, i))
       ELSE IF dom[i].name = "id" THEN Id(singleint(dom, i))
       ELSE IF dom[i].name = "ip" THEN Ip(singletext(dom, i))
       ELSE u

RECURSIVE UserLoop(_, _, _, _)
\* for lv1 in node.childNodes of a <contributor>, until an exception
UserLoop(dom, kids, k, u) ==
    IF k > Len(kids) \/ u.err # "" THEN u
    ELSE UserLoop(dom, kids, k + 1, UserChild(dom, kids[k], u))

\* a variant of User that leaves the user file alone
User_without_store(dom, i, f) ==
    UserLoop(dom, ChildNodes(dom, i), 1,
             [id |-> <<>>, name |-> <<>>, isip |-> FALSE,
              isdel |-> dom[i].attrs.deleted
                        = <<<<100, 101, 108, 101, 116, 101, 100>>>>,
              err |-> "", f |-> f])

\* User(node, meta) for the <contributor> at i, on the user file f:
\* [id, name, isip, isdel, err, f]
User(dom, i, f) ==
    LET Written(u, wr) == [u EXCEPT !.f = wr.f]
        Store(u) ==
            IF u.err # "" \/ u.isip \/ u.isdel THEN u
            ELSE IF u.name = <<>> THEN [u EXCEPT !.err = "TypeError"]
            ELSE Written(u, StringStoreWrite(u.f, Val(u.id), u.name[1], <<1>>))
    IN Store(UserLoop(dom, ChildNodes(dom, i), 1,
                      [id |-> <<>>, name |-> <<>>, isip |-> FALSE,
                       isdel |-> dom[i].attrs.deleted
                                 = <<<<100, 101, 108, 101, 116, 101, 100>>>>,
                       err |-> "", f |-> f]))

\* one child lv1 of a <revision> or <upload> in the loop of Revision.__init__
RevisionChild(dom, i, r) ==
    LET Id(n) ==
            IF n = <<>> THEN [r EXCEPT !.err = "ValueError"]
            ELSE [r EXCEPT !.id = n[1]]
        Time(t) ==
            IF t = <<>> THEN [r EXCEPT !.err = "ValueError"]
            ELSE [r EXCEPT !.timestamp = t]
        Timestamp(txt) ==
            IF txt = <<>> THEN [r EXCEPT !.err = "XMLError"]
            ELSE Time(ParseTimestamp(txt[1]))
        Contributor(u) ==
            IF u.err # "" THEN [r EXCEPT !.err = u.err, !.userfile = u.f]
            ELSE [r EXCEPT !.userfile = u.f,
                           !.user = <<[id |-> u.id, name |-> u.name,
                                       isip |-> u.isip, isdel |-> u.isdel]>>]
        Comment(txt) ==
            IF txt = <<>> THEN [r EXCEPT !.err = "XMLError"]
            ELSE [r EXCEPT !.comment = txt]
        Text(txt) ==
            IF txt = <<>> THEN [r EXCEPT !.err = "XMLError"]
            ELSE [r EXCEPT !.contents = <<Encode(txt[1])>>]
        Decoded(b) ==
            IF b = <<>> THEN [r EXCEPT !.err = "binascii.Error"]
            ELSE [r EXCEPT !.contents = b]
        Contents(txt) ==
            IF txt = <<>> THEN [r EXCEPT !.err = "XMLError"]
            ELSE Decoded(b64decode(txt[1]))
        name == dom[i].name
    IN IF dom[i].kind # "e" THEN r
       ELSE IF name = "id" THEN Id(singleint(dom, i))
       ELSE IF name = "contributor" THEN Contributor(User(dom, i, r.userfile))
       ELSE IF name = "minor" THEN [r EXCEPT !.minor = TRUE]
       ELSE IF name \notin {"timestamp", "comment", "text", "contents"} THEN r
       ELSE LET Child(txt) ==
                    IF name = "timestamp" THEN Timestamp(txt)
                    ELSE IF name = "comment" THEN Comment(txt)
                    ELSE IF name = "text" THEN Text(txt)
                    ELSE Contents(txt)
            IN Child(singletext(dom, i))

RECURSIVE RevisionLoop(_, _, _, _)
\* for lv1 in self.dom.childNodes of a <revision> or <upload>, until an
\* exception
RevisionLoop(dom, kids, k, r) ==
    IF k > Len(kids) \/ r.err # "" THEN r
    ELSE RevisionLoop(dom, kids, k + 1, RevisionChild(dom, kids[k], r))

BlobRecord(mark, contents) == [type |-> "blob", mark |-> mark, data |-> contents]

\* Revision(node, page, meta, upload) for the captured dom, in the world w:
\* the loop, store.write, comm.write, then the blob
Revision(w, dom, page, upload) ==
    LET sname == IF upload THEN "uplo" ELSE "meta"
        cname == IF upload THEN "upco" ELSE "comm"
        Mark(id) == IF upload THEN upload_mark(id) ELSE revision_mark(id)
        Out(w3, r) ==
            IF r.contents = <<>> THEN [w3 EXCEPT !.err = "TypeError"]
            ELSE [w3 EXCEPT !.stdout =
                     Append(w3.stdout, BlobRecord(Mark(Val(r.id)), r.contents[1]))]
        Commented(w2, cw) == [w2 EXCEPT !.disk[cname] = cw.f]
        Comm(w2, r) ==
            IF r.comment # <<>> /\ r.comment[1] # <<>>
            THEN Out(Commented(w2, StringStoreWrite(w2.disk[cname], Val(r.id),
                                                    r.comment[1], <<1>>)), r)
            ELSE Out(w2, r)
        Stored(w1, r, sw) ==
            IF ~sw.ok THEN [w1 EXCEPT !.err = "struct.error"]
            ELSE Comm([w1 EXCEPT !.disk[sname] = sw.f], r)
        Store(w1, r) ==
            IF r.err # "" THEN [w1 EXCEPT !.err = r.err]
            ELSE Stored(w1, r, MetaStoreWrite(w1.disk[sname], r.id, r.timestamp, page,
                                              r.user, r.minor, upload))
        Looped(w0, r) == Store([w0 EXCEPT !.disk.user = r.userfile], r)
        Counted(w0) ==
            Looped(w0, RevisionLoop(dom, ChildNodes(dom, 1), 1,
                       [id |-> IF upload THEN FromInt(w0.meta.max_upload) ELSE <<>>,
                        timestamp |-> <<>>, contents |-> <<>>, comment |-> <<>>,
                        user |-> <<>>, minor |-> FALSE,
                        userfile |-> w0.disk.user, err |-> ""]))
    IN Counted(IF upload THEN [w EXCEPT !.meta.max_upload = @ + 1] ELSE w)

\* Page(meta)
NewPage == [title |-> <<>>, fulltitle |-> <<>>, nsid |-> <<>>, id |-> <<>>]

\* a variant of setTitle that keeps the prefix in the title
setTitle_keep_prefix(page, nstoid, title) ==
    LET split == Split(title, 58)
    IN IF Len(split) > 1 /\ split[1] \in DOMAIN nstoid
       THEN <<[page EXCEPT !.fulltitle = title, !.nsid = nstoid[split[1]],
                           !.title = title]>>
       ELSE IF <<>> \in DOMAIN nstoid
       THEN <<[page EXCEPT !.fulltitle = title, !.nsid = nstoid[<<>>],
                           !.title = title]>>
       ELSE <<>>

\* Page.setTitle(title): <<page>>, or <<>> for a KeyError
setTitle(page, nstoid, title) ==
    LET split == Split(title, 58)
        rest  == SubSeq(title, Len(split[1]) + 2, Len(title))
    IN IF Len(split) > 1 /\ split[1] \in DOMAIN nstoid
       THEN <<[page EXCEPT !.fulltitle = title, !.nsid = nstoid[split[1]],
                           !.title = rest]>>
       ELSE IF <<>> \in DOMAIN nstoid
       THEN <<[page EXCEPT !.fulltitle = title, !.nsid = nstoid[<<>>],
                           !.title = title]>>
       ELSE <<>>

\* Page.saveTitle(): [ok, f] on the page file f; an id is never -1
saveTitle(page, f) ==
    IF page.title # <<>>
    THEN StringStoreWrite(f, Val(page.id), page.title, page.nsid)
    ELSE [ok |-> TRUE, f |-> f]

(***************************************************************************)
(* BlobWriter: the callbacks of the captures.                              *)
(***************************************************************************)
process_captured_base(w, dom) ==
    LET Set(txt) ==
            IF txt = <<>> THEN Raise(w, "XMLError")
            ELSE [w EXCEPT !.meta.domain = Hostname(txt[1])]
    IN Set(singletext(dom, 1))

process_captured_namespace_swapped(w, dom) ==
    LET Set(key, name) ==
            IF key = <<>> THEN Raise(w, "ValueError")
            ELSE IF name = <<>> THEN Raise(w, "XMLError")
            ELSE [w EXCEPT !.meta.idtons = DictSet(@, key[1], name[1]),
                           !.meta.nstoid = DictSet(@, key[1], key[1])]
    IN Set(IF dom[1].attrs.key = <<>> THEN <<>> ELSE ParseInt(dom[1].attrs.key[1]),
           singletext(dom, 1))

process_captured_namespace(w, dom) ==
    LET Set(key, name) ==
            IF key = <<>> THEN Raise(w, "ValueError")
            ELSE IF name = <<>> THEN Raise(w, "XMLError")
            ELSE [w EXCEPT !.meta.idtons = DictSet(@, key[1], name[1]),
                           !.meta.nstoid = DictSet(@, name[1], key[1])]
    IN Set(IF dom[1].attrs.key = <<>> THEN <<>> ELSE ParseInt(dom[1].attrs.key[1]),
           singletext(dom, 1))

\* a variant of process_captured_title that saves the title as setID does
process_captured_title_saving(w, dom) ==
    LET Saved(p, sv) ==
            IF ~sv.ok THEN Raise([w EXCEPT !.bw.page = <<p>>], "struct.error")
            ELSE [w EXCEPT !.bw.page = <<p>>, !.disk.page = sv.f]
        Titled(p) ==
            IF p = <<>> THEN Raise(w, "KeyError")
            ELSE Saved(p[1], saveTitle(p[1], w.disk.page))
        Set(txt) ==
            IF txt = <<>> THEN Raise(w, "XMLError")
            ELSE Titled(setTitle(w.bw.page[1], w.meta.nstoid, txt[1]))
    IN IF w.bw.page = <<>> THEN Raise(w, "AttributeError")
       ELSE Set(singletext(dom, 1))

process_captured_title(w, dom) ==
    LET Titled(p) ==
            IF p = <<>> THEN Raise(w, "KeyError") ELSE [w EXCEPT !.bw.page = p]
        Set(txt) ==
            IF txt = <<>> THEN Raise(w, "XMLError")
            ELSE Titled(setTitle(w.bw.page[1], w.meta.nstoid, txt[1]))
    IN IF w.bw.page = <<>> THEN Raise(w, "AttributeError")
       ELSE Set(singletext(dom, 1))

process_captured_page_id(w, dom) ==
    LET Saved(p, sv) ==
            IF ~sv.ok THEN Raise([w EXCEPT !.bw.page = <<p>>], "struct.error")
            ELSE [w EXCEPT !.bw.page = <<p>>, !.disk.page = sv.f]
        SetID(p) == Saved(p, saveTitle(p, w.disk.page))
        Set(n) ==
            IF n = <<>> THEN Raise(w, "ValueError")
            ELSE SetID([w.bw.page[1] EXCEPT !.id = n[1]])
    IN IF w.bw.page = <<>> THEN Raise(w, "AttributeError")
       ELSE Set(singleint(dom, 1))

process_captured_revision(w, dom) ==
    IF w.bw.page = <<>> THEN Raise(w, "AttributeError")
    ELSE Revision(w, dom, w.bw.page[1].id, FALSE)

process_captured_upload(w, dom) ==
    IF w.bw.page = <<>> THEN Raise(w, "AttributeError")
    ELSE Revision(w, dom, w.bw.page[1].id, TRUE)

\* the callback of each Capture the BlobWriter makes
Callback(c, w, dom) ==
    CASE c = "base"      -> process_captured_base(w, dom)
      [] c = "namespace" -> process_captured_namespace(w, dom)
      [] c = "title"     -> process_captured_title(w, dom)
      [] c = "id"        -> process_captured_page_id(w, dom)
      [] c = "revision"  -> process_captured_revision(w, dom)
      [] c = "upload"    -> process_captured_upload(w, dom)

\* a variant of end_page that leaves self.page set
end_page_keep_page(w, importMax) ==
    IF w.bw.page = <<>> THEN Raise(w, "XMLError")
    ELSE LET n == w.bw.imported + 1
         IN IF importMax > 0 /\ n >= importMax
            THEN [w EXCEPT !.bw.imported = n,
                           !.bw.canceled = TRUE, !.err = "CancelException"]
            ELSE [w EXCEPT !.bw.imported = n]

\* a variant of end_page that cancels one page late
end_page_late(w, importMax) ==
    IF w.bw.page = <<>> THEN Raise(w, "XMLError")
    ELSE LET n == w.bw.imported + 1
         IN IF importMax > 0 /\ n > importMax
            THEN [w EXCEPT !.bw.page = <<>>, !.bw.imported = n,
                           !.bw.canceled = TRUE, !.err = "CancelException"]
            ELSE [w EXCEPT !.bw.page = <<>>, !.bw.imported = n]

\* BlobWriter.end_page(name); importMax is options.IMPORT_MAX
end_page(w, importMax) ==
    IF w.bw.page = <<>> THEN Raise(w, "XMLError")
    ELSE LET n == w.bw.imported + 1
         IN IF importMax > 0 /\ n >= importMax
            THEN [w EXCEPT !.bw.page = <<>>, !.bw.imported = n,
                           !.bw.canceled = TRUE, !.err = "CancelException"]
            ELSE [w EXCEPT !.bw.page = <<>>, !.bw.imported = n]

(***************************************************************************)
(* StackManager, Cases, Capture and the BlobWriter's start handlers.  A    *)
(* handler is [h, c]: the function and, for a bound method of a Capture or *)
(* a Cases object, which one.  A frame is the tuple [s, e, t] of the       *)
(* start, end and text handlers.                                           *)
(***************************************************************************)
XMLNS == "http://www.mediawiki.org/xml/export-0.10/"

None == [h |-> "None", c |-> ""]

Frame(s, e, t) == [s |-> s, e |-> e, t |-> t]

NullFrame == Frame(None, None, None)

CasesFrame(table) == Frame([h |-> "Cases", c |-> table], None, None)

CaptureNames == {"base", "namespace", "title", "id", "revision", "upload"}

IdleCapture == [dom |-> <<>>, cur |-> 0]

NoCaptures == [c \in CaptureNames |-> IdleCapture]

\* a variant of push that keeps the active frame when a null frame is pushed
push_keep_active(mgr, handlers) ==
    [active |-> IF handlers = NullFrame THEN mgr.active ELSE handlers,
     stack  |-> Append(mgr.stack, mgr.active)]

\* StackManager.push(handlers)
push(mgr, handlers) == [active |-> handlers, stack |-> Append(mgr.stack, mgr.active)]

\* StackManager.pop(): <<mgr>>, or <<>> for an XMLError
pop(mgr) ==
    IF mgr.stack = <<>> THEN <<>>
    ELSE <<[active |-> mgr.stack[Len(mgr.stack)],
            stack  |-> SubSeq(mgr.stack, 1, Len(mgr.stack) - 1)]>>

\* what a start handler returns: the exception, the frame, and the
\* captures and the page as it leaves them
Started(err, frame, caps, page) ==
    [err |-> err, frame |-> frame, cap |-> caps, page |-> page]

\* Capture.__call__(tag, attrs) of the capture c
CaptureCall(c, tag, attrs, caps, page) ==
    IF caps[c].dom # <<>> \/ caps[c].cur # 0
    THEN Started("XMLError", NullFrame, caps, page)
    ELSE Started("",
                 Frame([h |-> "Capture.start_sub", c |-> c],
                       [h |-> "Capture.finish", c |-> c],
                       [h |-> "Capture.handle_text", c |-> c]),
                 [caps EXCEPT ![c] = [dom |-> <<ElemNode(tag, attrs, 0)>>, cur |-> 1]],
                 page)

\* Capture.start_sub(tag, attrs)
start_sub(c, tag, attrs, caps, page) ==
    LET dom == Append(caps[c].dom, ElemNode(tag, attrs, caps[c].cur))
    IN Started("",
               Frame([h |-> "Capture.start_sub", c |-> c],
                     [h |-> "Capture.end_sub", c |-> c],
                     [h |-> "Capture.handle_text", c |-> c]),
               [caps EXCEPT ![c] = [dom |-> dom, cur |-> Len(dom)]],
               page)

\* BlobWriter.start_page(tag, attrs); the captures of the page are new
start_page(tag, attrs, caps, page) ==
    IF page # <<>> THEN Started("XMLError", NullFrame, caps, page)
    ELSE Started("",
                 Frame([h |-> "Cases", c |-> "page"],
                       [h |-> "end_page", c |-> ""], None),
                 [c \in CaptureNames |->
                     IF c \in {"title", "id", "revision", "upload"}
                     THEN IdleCapture ELSE caps[c]],
                 <<NewPage>>)

\* a variant of start_root that does not look at the namespace
start_root_any_namespace(tag, attrs, caps, page) ==
    IF tag.name # "mediawiki" THEN Started("XMLError", NullFrame, caps, page)
    ELSE Started("", CasesFrame("mediawiki"), caps, page)

\* BlobWriter.start_root(tag, attrs)
start_root(tag, attrs, caps, page) ==
    IF tag.ns # XMLNS THEN Started("XMLError", NullFrame, caps, page)
    ELSE IF tag.name # "mediawiki" THEN Started("XMLError", NullFrame, caps, page)
    ELSE Started("", CasesFrame("mediawiki"), caps, page)

\* the keys of the Cases objects the BlobWriter builds
CasesKeys(table) ==
    CASE table = "mediawiki"  -> {"page", "siteinfo"}
      [] table = "siteinfo"   -> {"base", "namespaces"}
      [] table = "namespaces" -> {"namespace"}
      [] table = "page"       -> {"title", "id", "revision", "upload"}

\* a variant of Cases.__call__ that stays active under a tag it does not know
CasesCall_transparent(table, tag, attrs, caps, page) ==
    IF tag.name \notin CasesKeys(table) THEN Started("", CasesFrame(table), caps, page)
    ELSE IF table = "mediawiki" THEN
        IF tag.name = "page" THEN start_page(tag, attrs, caps, page)
        ELSE Started("", CasesFrame("siteinfo"),
                     [caps EXCEPT !["base"] = IdleCapture], page)
    ELSE IF table = "siteinfo" /\ tag.name = "namespaces" THEN
        Started("", CasesFrame("namespaces"),
                [caps EXCEPT !["namespace"] = IdleCapture], page)
    ELSE CaptureCall(tag.name, tag, attrs, caps, page)

\* Cases.__call__(tag, attrs): dispatch on the unqualified tag name
CasesCall(table, tag, attrs, caps, page) ==
    IF tag.name \notin CasesKeys(table) THEN Started("", NullFrame, caps, page)
    ELSE IF table = "mediawiki" THEN
        IF tag.name = "page" THEN start_page(tag, attrs, caps, page)
        ELSE Started("", CasesFrame("siteinfo"),
                     [caps EXCEPT !["base"] = IdleCapture], page)
    ELSE IF table = "siteinfo" /\ tag.name = "namespaces" THEN
        Started("", CasesFrame("namespaces"),
                [caps EXCEPT !["namespace"] = IdleCapture], page)
    ELSE CaptureCall(tag.name, tag, attrs, caps, page)

\* the call self.active[0](tag, attrs)
OnStart(h, tag, attrs, caps, page) ==
    CASE h.h = "start_root"        -> start_root(tag, attrs, caps, page)
      [] h.h = "Cases"             -> CasesCall(h.c, tag, attrs, caps, page)
      [] h.h = "Capture.start_sub" -> start_sub(h.c, tag, attrs, caps, page)

\* Capture.handle_text(content), the only text handler
handle_text(c, content, caps) ==
    [caps EXCEPT ![c].dom = Append(caps[c].dom, TextNode(content, caps[c].cur))]

\* what an end handler returns: the world and the captures
Ended(w, caps) == [w |-> w, cap |-> caps]

\* a variant of Capture.finish that keeps the DOM after the callback
finish_keep_dom(c, w, caps) ==
    IF caps[c].dom = <<>> \/ caps[c].cur = 0 THEN Ended(Raise(w, "XMLError"), caps)
    ELSE Ended(Callback(c, w, caps[c].dom), caps)

\* Capture.finish(tag)
finish(c, w, caps) ==
    LET Called(w2) ==
            IF w2.err # "" THEN Ended(w2, caps)
            ELSE Ended(w2, [caps EXCEPT ![c] = IdleCapture])
    IN IF caps[c].dom = <<>> \/ caps[c].cur = 0 THEN Ended(Raise(w, "XMLError"), caps)
       ELSE Called(Callback(c, w, caps[c].dom))

\* Capture.end_sub(tag)
end_sub(c, w, caps) ==
    Ended(w, [caps EXCEPT ![c].cur = caps[c].dom[caps[c].cur].parent])

\* the call self.active[1](name)
OnEnd(h, w, caps, importMax) ==
    CASE h.h = "Capture.finish"  -> finish(h.c, w, caps)
      [] h.h = "Capture.end_sub" -> end_sub(h.c, w, caps)
      [] h.h = "end_page"        -> Ended(end_page(w, importMax), caps)

(***************************************************************************)
(* Pass 2: create_path and Committer.work.                                 *)
(***************************************************************************)
\* sanitize(s): every '/' becomes '\x1c'
sanitize(s) == [i \in 1..Len(s) |-> IF s[i] = 47 THEN 28 ELSE s[i]]

\* os.path.join(a, b)
PathJoin(a, b) ==
    IF b # <<>> /\ b[1] = 47 THEN b
    ELSE IF a = <<>> \/ a[Len(a)] = 47 THEN a \o b
    ELSE a \o <<47>> \o b

RECURSIVE NormComps(_, _, _, _)
\* the loop of os.path.normpath over the components
NormComps(comps, k, slashes, new) ==
    IF k > Len(comps) THEN new
    ELSE LET comp == comps[k]
             dotdot == <<46, 46>>
         IN IF comp = <<>> \/ comp = <<46>> THEN NormComps(comps, k + 1, slashes, new)
            ELSE IF \/ comp # dotdot
                    \/ (slashes = 0 /\ new = <<>>)
                    \/ (new # <<>> /\ new[Len(new)] = dotdot)
            THEN NormComps(comps, k + 1, slashes, Append(new, comp))
            ELSE IF new # <<>>
            THEN NormComps(comps, k + 1, slashes, SubSeq(new, 1, Len(new) - 1))
            ELSE NormComps(comps, k + 1, slashes, new)

\* os.path.normpath(path)
normpath(path) ==
    IF path = <<>> THEN <<46>>
    ELSE LET slashes == IF path[1] # 47 THEN 0
                        ELSE IF Len(path) >= 2 /\ path[2] = 47
                                /\ ~(Len(path) >= 3 /\ path[3] = 47) THEN 2
                        ELSE 1
             joined == Join(NormComps(Split(path, 47), 1, slashes, <<>>), 47)
             res    == [i \in 1..slashes |-> 47] \o joined
         IN IF res = <<>> THEN <<46>> ELSE res

\* codecs.encode(bytes(c, ENCODING), 'hex'): two digits for each byte
HexBytes(ba) ==
    IF ba = <<>> THEN <<>>
    ELSE [i \in 1..(2 * Len(ba)) |->
            IF i % 2 = 1 THEN HexDigit(ba[(i + 1) \div 2] \div 16)
            ELSE HexDigit(ba[i \div 2] % 16)]

RECURSIVE HexDirs(_, _, _)
\* for c in title[:DEEPNESS]: path = os.path.join(path, hex of c)
HexDirs(path, title, k) ==
    IF k > Len(title) THEN path
    ELSE HexDirs(PathJoin(path, HexBytes(Utf8(title[k]))), title, k + 1)

Mediawiki == <<109, 101, 100, 105, 97, 119, 105, 107, 105>>

DotMediawiki == <<46, 109, 101, 100, 105, 97, 119, 105, 107, 105>>

\* path.replace('/', '-').replace(' ', '-')
Dashes(s) == [i \in 1..Len(s) |-> IF s[i] = 47 \/ s[i] = 32 THEN 45 ELSE s[i]]

\* create_path(ns, title, upload, meta): <<path>>, or <<>> for a KeyError
create_path(ns, title, upload, idtons, options) ==
    IF options.DIRSTRUCT = "levitation" THEN
        IF ns \notin DOMAIN idtons THEN <<>>
        ELSE <<normpath(PathJoin(
                  HexDirs(sanitize(IntStr(ns) \o <<45>> \o idtons[ns]),
                          Take(title, options.DEEPNESS), 1),
                  sanitize(title)
                  \o sanitize(IF upload THEN <<>> ELSE Mediawiki)))>>
    ELSE IF upload THEN
        IF ns \notin DOMAIN idtons THEN <<>>
        ELSE <<normpath(Dashes(idtons[ns] \o <<58>> \o title))>>
    ELSE IF ns = <<>> THEN <<normpath(Dashes(title \o DotMediawiki))>>
    ELSE IF ns \notin DOMAIN idtons THEN <<>>
    ELSE IF ns = <<6>>
    THEN <<normpath(Dashes(<<58>> \o idtons[ns] \o <<58>> \o title \o DotMediawiki))>>
    ELSE <<normpath(Dashes(idtons[ns] \o <<58>> \o title \o DotMediawiki))>>

\* a variant of GenStore that ends the scan at the first slot without 'exists'
GenStoreUntilEmpty(f) ==
    LET all == [i \in 1..(Len(f) \div MetaStructSize) |-> MetaStoreRead(f, i - 1)[1]]
    IN SubSeq(all, 1, Cardinality({i \in 1..Len(all) : \A j \in 1..i : all[j].exists}))

\* the infos one store yields in gen(): the slots read until read gives
\* None, those with 'exists' only
GenStore(f) ==
    SelectSeq([i \in 1..(Len(f) \div MetaStructSize) |-> MetaStoreRead(f, i - 1)[1]],
              LAMBDA d : d.exists)

\* gen(): the revision store, then the upload store
gen(d) == GenStore(d.meta) \o GenStore(d.uplo)

RECURSIVE InsertBeforeEqual(_, _)
\* a variant of InsertByEpoch that puts x before the infos of its epoch
InsertBeforeEqual(sorted, x) ==
    IF sorted = <<>> THEN <<x>>
    ELSE IF sorted[Len(sorted)].epoch < x.epoch THEN Append(sorted, x)
    ELSE Append(InsertBeforeEqual(SubSeq(sorted, 1, Len(sorted) - 1), x),
                sorted[Len(sorted)])

RECURSIVE InsertByEpoch(_, _)
InsertByEpoch(sorted, x) ==
    IF sorted = <<>> THEN <<x>>
    ELSE IF sorted[Len(sorted)].epoch <= x.epoch THEN Append(sorted, x)
    ELSE Append(InsertByEpoch(SubSeq(sorted, 1, Len(sorted) - 1), x),
                sorted[Len(sorted)])

RECURSIVE SortFrom(_, _, _)
SortFrom(infos, k, sorted) ==
    IF k > Len(infos) THEN sorted
    ELSE SortFrom(infos, k + 1, InsertByEpoch(sorted, infos[k]))

\* infos.sort(key=lambda x: x['epoch']): stable, ascending
SortByEpoch(infos) == SortFrom(infos, 1, <<>>)

\* the sequence the loop 'for info in infos' runs over
Infos(d, options) == IF options.SORT THEN SortByEpoch(gen(d)) ELSE gen(d)

\* self.meta['user'].read(id) for an id of any size; the user file never
\* reaches the slot of an id of four bytes or more
UserRead(f, id) ==
    IF Len(id) > 3 THEN [ok |-> TRUE, len |-> 0, flags |-> <<>>, text |-> <<>>]
    ELSE StringStoreRead(f, Val(id))

CommitRecord(mark, author, email, epoch, committime, msg, from, blob, path) ==
    [type |-> "commit", mark |-> mark, author |-> author, email |-> email,
     epoch |-> epoch, committime |-> committime, msg |-> msg, from |-> from,
     blob |-> blob, path |-> path]

\* a variant of authoruid that looks at isdel first
authoruid_deleted_first(info) ==
    IF info.isdel THEN <<100, 101, 108, 101, 116, 101, 100>>
    ELSE IF info.isip THEN <<105, 112, 45>> \o info.user
    ELSE <<117, 105, 100, 45>> \o IntStr(info.user)

\* authoruid: 'ip-' + author, 'deleted', or 'uid-' + str(info['user'])
authoruid(info) ==
    IF info.isip THEN <<105, 112, 45>> \o info.user
    ELSE IF info.isdel THEN <<100, 101, 108, 101, 116, 101, 100>>
    ELSE <<117, 105, 100, 45>> \o IntStr(info.user)

\* one iteration of the loop in Committer.work, for the info numbered
\* commit_num: [err, rec]
Commit(info, commit_num, d, m, options) ==
    LET page     == StringStoreRead(d.page, info.page)
        filename == create_path(page.flags, page.text, info.upload, m.idtons, options)
        comm     == StringStoreRead(IF info.upload THEN d.upco ELSE d.comm, info.rev)
        msg      == [text |-> comm.text, page |-> info.page, rev |-> info.rev,
                     minor |-> ~info.upload /\ info.minor, upload |-> info.upload]
        blob_mark == IF info.upload THEN upload_mark(info.rev)
                     ELSE revision_mark(info.rev)
        named    == ~info.isip /\ ~info.isdel
        userrec  == UserRead(d.user, info.user)
        author   == IF info.isip THEN info.user
                    ELSE IF info.isdel THEN <<91, 100, 101, 108, 101, 116, 101, 100, 32, 117, 115, 101, 114, 93>>
                    ELSE userrec.text
        email    == IF options.AUTHOR_DOMAIN # <<>>
                    THEN authoruid(info) \o <<64>> \o options.AUTHOR_DOMAIN
                    ELSE authoruid(info) \o <<64, 103, 105, 116, 46>> \o m.domain[1]
        from     == IF commit_num > 0 THEN <<commit_mark(commit_num - 1)>> ELSE <<>>
        none     == [err |-> "", rec |-> <<>>]
    IN IF ~page.ok THEN [none EXCEPT !.err = "UnicodeDecodeError"]
       ELSE IF filename = <<>> THEN [none EXCEPT !.err = "KeyError"]
       ELSE IF ~comm.ok THEN [none EXCEPT !.err = "UnicodeDecodeError"]
       ELSE IF named /\ ~userrec.ok THEN [none EXCEPT !.err = "UnicodeDecodeError"]
       ELSE IF options.AUTHOR_DOMAIN = <<>> /\ m.domain = <<>>
       THEN [none EXCEPT !.err = "TypeError"]
       ELSE [none EXCEPT !.rec =
                <<CommitRecord(commit_mark(commit_num), author, email, info.epoch,
                               IF options.WIKITIME THEN <<info.epoch>> ELSE <<>>,
                               msg, from, blob_mark, filename[1])>>]

(***************************************************************************)
(* Standard input: the events the parser delivers, in document order.  A   *)
(* behaviour follows one plan.  "pages": a dump of pages with revisions    *)
(* and uploads, the plain form or with at most MaxOdd departures from it.  *)
(* "namespaces": a <siteinfo> with arbitrary <namespace> elements.         *)
(* "free": elements and texts of arbitrary shape.  What is chosen as a     *)
(* unit (a leaf element with its text, a <contributor>) is put in          *)
(* xml.script and delivered event by event.                                *)
(***************************************************************************)
Tag(ns, name) == [ns |-> ns, name |-> name]

StartEv(name, attrs) == [k |-> "s", tag |-> Tag(XMLNS, name), attrs |-> attrs, data |-> <<>>]

EndEv(name) == [k |-> "e", tag |-> Tag(XMLNS, name), attrs |-> NoAttrs, data |-> <<>>]

TextEv(data) == [k |-> "t", tag |-> Tag("", ""), attrs |-> NoAttrs, data |-> data]

Leaf(name, attrs, text) ==
    IF text = <<>> THEN <<StartEv(name, attrs), EndEv(name)>>
    ELSE <<StartEv(name, attrs), TextEv(text), EndEv(name)>>

Plans == {"pages", "namespaces", "free"}

\* what the dump says about an item: the values a reader of the dump expects
NoItem == [upload |-> FALSE, hasid |-> FALSE, id |-> 0, epoch |-> 0, uid |-> <<>>,
           isip |-> FALSE, isdel |-> FALSE, minor |-> FALSE, text |-> FALSE,
           pageid |-> 0, idknown |-> FALSE, pno |-> 0, run |-> 0, done |-> TRUE,
           comment |-> FALSE]

NoXml(plan) ==
    [plan |-> plan, open |-> <<>>, script |-> <<>>, done |-> FALSE, np |-> 0,
     pno |-> 0, mstage |-> 0, kind |-> "plain", slots |-> <<>>, istage |-> 0,
     item |-> NoItem,
     runs |-> 0, pages |-> 0, items |-> 0, nss |-> 0, odd |-> 0, elems |-> 0,
     texts |-> 0]

\* a new document on standard input; the counters run over the behaviour
NewDocument(x) ==
    [NoXml(x.plan) EXCEPT !.runs = x.runs, !.pages = x.pages, !.items = x.items,
                          !.nss = x.nss, !.odd = x.odd, !.elems = x.elems,
                          !.texts = x.texts]

\* the document after the event ev
Advance(x, ev) ==
    LET open == IF ev.k = "s" THEN Append(x.open, ev.tag.name)
                ELSE IF ev.k = "e" THEN SubSeq(x.open, 1, Len(x.open) - 1)
                ELSE x.open
    IN [x EXCEPT !.open = open, !.done = (ev.k = "e" /\ open = <<>>)]

\* the events evs are next; x holds what choosing them changes
Deliver(evs, x) ==
    [ev |-> evs[1], xml |-> Advance([x EXCEPT !.script = Tail(evs)], evs[1])]

Odd(x, c) == [x EXCEPT !.odd = @ + c]

TS1Text == <<50, 48, 50, 48, 45, 48, 49, 45, 48, 50, 84, 48, 51, 58, 48, 52, 58, 48, 53, 90>>

TS2Text == <<50, 48, 48, 49, 45, 48, 49, 45, 49, 53, 84, 48, 48, 58, 48, 48, 58, 48, 48, 90>>

\* 2020-01-02 is day 18263 of the epoch, 03:04:05 its second 11045
TS1Epoch == 18263 * 86400 + 11045

\* 2001-01-15 is day 11337 of the epoch
TS2Epoch == 11337 * 86400

IpText == <<49, 57, 50, 46, 48, 46, 50, 46, 49>>

IpInt == <<1, 2, 0, 192>>

Deleted == [key |-> <<>>, deleted |-> <<<<100, 101, 108, 101, 116, 101, 100>>>>]

KeyAttr(k) == [key |-> <<k>>, deleted |-> <<>>]

PageKinds == {"plain", "idfirst", "lateid", "noid"}

SlotsOf(kind) ==
    CASE kind = "plain"   -> <<"title", "id", "items">>
      [] kind = "idfirst" -> <<"id", "title", "items">>
      [] kind = "lateid"  -> <<"title", "items", "id">>
      [] kind = "noid"    -> <<"title", "items">>

\* the plain <siteinfo>: a base and the namespaces 0 '' and 1 'T'
PlainSiteinfo ==
    <<StartEv("siteinfo", NoAttrs)>>
    \o Leaf("base", NoAttrs, <<104, 116, 116, 112, 58, 47, 47, 119, 46, 111, 114, 103, 47>>)
    \o <<StartEv("namespaces", NoAttrs)>>
    \o Leaf("namespace", KeyAttr(<<48>>), <<>>)
    \o Leaf("namespace", KeyAttr(<<49>>), <<84>>)
    \o <<EndEv("namespaces"), EndEv("siteinfo")>>

\* the root element and, for a dump, how many pages it holds
RootChoices(x) ==
    IF x.plan = "pages"
    THEN {Deliver(<<StartEv("mediawiki", NoAttrs)>>, [x EXCEPT !.np = n]) :
            n \in 0..(MaxPages - x.pages)}
    ELSE {Deliver(<<StartEv("mediawiki", NoAttrs)>>, x)}

PageCost(x, kind) ==
    (IF kind = "plain" THEN 0 ELSE 1) + (IF x.mstage = 0 THEN 1 ELSE 0)

\* under <mediawiki> of a dump
DumpChoices(x) ==
    (IF x.mstage = 0 THEN {Deliver(PlainSiteinfo, [x EXCEPT !.mstage = 1])} ELSE {})
    \cup {Deliver(<<StartEv("page", NoAttrs)>>,
                  Odd([x EXCEPT !.mstage = 1, !.pno = @ + 1, !.pages = @ + 1,
                                !.kind = kind, !.slots = SlotsOf(kind)],
                      PageCost(x, kind))) :
            kind \in {kd \in PageKinds :
                        x.pno < x.np /\ x.odd + PageCost(x, kd) <= MaxOdd}}
    \cup (IF x.pno = x.np THEN {Deliver(<<EndEv("mediawiki")>>, x)} ELSE {})

IdLeaf(n) == Leaf("id", NoAttrs, Decimal(n))

NewItem(x, upload) ==
    [NoItem EXCEPT !.upload = upload, !.pno = x.pno, !.run = x.runs,
                   !.pageid = IF x.kind = "noid" THEN 0 ELSE x.pno,
                   !.idknown = x.kind \in {"plain", "idfirst"}]

\* the titles 'T:A', 'X:A' and 'T:A:B'
PrefixedTitles == {<<84, 58, 65>>, <<88, 58, 65>>, <<84, 58, 65, 58, 66>>}

\* under <page>: the slots of the page in their order
PageChoices(x) ==
    IF x.slots = <<>> THEN {Deliver(<<EndEv("page")>>, x)}
    ELSE IF x.slots[1] = "title" THEN
        {Deliver(Leaf("title", NoAttrs, <<65>>), [x EXCEPT !.slots = Tail(@)])}
        \cup {Deliver(Leaf("title", NoAttrs, t), Odd([x EXCEPT !.slots = Tail(@)], 1)) :
                t \in IF x.odd < MaxOdd THEN PrefixedTitles ELSE {}}
    ELSE IF x.slots[1] = "id" THEN
        {Deliver(IdLeaf(x.pno), [x EXCEPT !.slots = Tail(@)])}
    ELSE {Deliver(<<StartEv(nm, NoAttrs)>>,
                  [x EXCEPT !.items = @ + 1, !.istage = 0,
                            !.item = NewItem(x, nm = "upload")]) :
            nm \in IF x.items < MaxItems THEN {"revision", "upload"} ELSE {}}
         \cup (IF Len(x.slots) = 1
               THEN {Deliver(<<EndEv("page")>>, [x EXCEPT !.slots = <<>>])}
               ELSE {Deliver(IdLeaf(x.pno), [x EXCEPT !.slots = <<>>])})

\* the child numbered n may come next: the order is id, timestamp,
\* contributor, minor, comment, text; timestamp and contributor are not left out
MayCome(x, n) == x.istage < n /\ (n <= 2 \/ x.istage >= 2) /\ (n <= 3 \/ x.istage >= 3)

\* a revision without <id> is a departure
SkipCost(x, n) == IF ~x.item.upload /\ x.istage = 0 /\ n > 1 THEN 1 ELSE 0

Child(x, n, evs, c, item) ==
    IF MayCome(x, n) /\ x.odd + c + SkipCost(x, n) <= MaxOdd
    THEN {Deliver(evs, Odd([x EXCEPT !.istage = n, !.item = item], c + SkipCost(x, n)))}
    ELSE {}

UserChunk ==
    <<StartEv("contributor", NoAttrs)>> \o Leaf("username", NoAttrs, <<97>>)
    \o Leaf("id", NoAttrs, <<51>>) \o <<EndEv("contributor")>>

IpChunk ==
    <<StartEv("contributor", NoAttrs)>> \o Leaf("ip", NoAttrs, IpText)
    \o <<EndEv("contributor")>>

\* a <comment> with an element in it
MarkedUpComment ==
    <<StartEv("comment", NoAttrs), StartEv("b", NoAttrs), EndEv("b"), EndEv("comment")>>

\* a deleted contributor that still has its <ip>
DeletedIpChunk ==
    <<StartEv("contributor", Deleted)>> \o Leaf("ip", NoAttrs, IpText)
    \o <<EndEv("contributor")>>

\* under <revision> or <upload>
ItemChoices(x) ==
    LET it == x.item
        nm == IF it.upload THEN "upload" ELSE "revision"
        endcost == IF x.istage < 6 THEN 1 ELSE 0
    IN (IF it.upload
        THEN Child(x, 1, IdLeaf(1), 1, [it EXCEPT !.hasid = TRUE, !.id = 1])
        ELSE Child(x, 1, IdLeaf(1), 0, [it EXCEPT !.hasid = TRUE, !.id = 1])
             \cup Child(x, 1, IdLeaf(3), 0, [it EXCEPT !.hasid = TRUE, !.id = 3]))
       \cup Child(x, 2, Leaf("timestamp", NoAttrs, TS1Text), 0,
                  [it EXCEPT !.epoch = TS1Epoch])
       \cup Child(x, 2, Leaf("timestamp", NoAttrs, TS2Text), 1,
                  [it EXCEPT !.epoch = TS2Epoch])
       \cup Child(x, 3, UserChunk, 0, [it EXCEPT !.uid = <<3>>])
       \cup Child(x, 3, IpChunk, 1, [it EXCEPT !.uid = IpInt, !.isip = TRUE])
       \cup Child(x, 3, Leaf("contributor", Deleted, <<>>), 1,
                  [it EXCEPT !.isdel = TRUE])
       \cup Child(x, 3, DeletedIpChunk, 1,
                  [it EXCEPT !.uid = IpInt, !.isip = TRUE, !.isdel = TRUE])
       \cup Child(x, 4, Leaf("minor", NoAttrs, <<>>), 1, [it EXCEPT !.minor = TRUE])
       \cup Child(x, 5, Leaf("comment", NoAttrs, <<99>>), 1, [it EXCEPT !.comment = TRUE])
       \cup Child(x, 5, MarkedUpComment, 1, it)
       \cup (IF it.upload
             THEN Child(x, 6, Leaf("contents", NoAttrs, <<101, 65, 61, 61>>), 0,
                        [it EXCEPT !.text = TRUE])
             ELSE Child(x, 6, Leaf("text", NoAttrs, <<120>>), 0,
                        [it EXCEPT !.text = TRUE]))
       \cup (IF x.istage >= 3 /\ x.odd + endcost <= MaxOdd
             THEN {Deliver(<<EndEv(nm)>>, Odd(x, endcost))}
             ELSE {})

\* the key attributes '0' and '1' with their values
NsKeys == {[text |-> <<48>>, val |-> <<>>], [text |-> <<49>>, val |-> <<1>>]}

NsNames == {<<>>, <<84>>}

\* plan "namespaces"
NamespaceChoices(x) ==
    IF Len(x.open) = 1 THEN
        IF x.mstage = 0
        THEN {Deliver(<<StartEv("siteinfo", NoAttrs), StartEv("namespaces", NoAttrs)>>,
                      [x EXCEPT !.mstage = 1])}
        ELSE {Deliver(<<EndEv("mediawiki")>>, x)}
    ELSE IF Len(x.open) = 3 THEN
        {Deliver(Leaf("namespace", KeyAttr(k.text), n),
                 [x EXCEPT !.nss = @ + 1, !.item = [key |-> k.val, name |-> n]]) :
            k \in IF x.nss < MaxNs THEN NsKeys ELSE {}, n \in NsNames}
        \cup {Deliver(<<EndEv("namespaces"), EndEv("siteinfo")>>, x)}
    ELSE {}

FreeNames == {"mediawiki", "page", "id", "x"}

\* the address 2001:db8::1
Ip6Text == <<50, 48, 48, 49, 58, 100, 98, 56, 58, 58, 49>>

Ip6Int == <<1, 0, 0, 0, 0, 0, 0, 0, 0, 0, 0, 0, 184, 13, 1, 32>>

\* the address ::1
LoopbackText == <<58, 58, 49>>

LoopbackInt == <<1>>

\* the revisions 2, 3 and 4 of the streams come from these addresses
IpOfRevision ==
    (2 :> [text |-> IpText, int |-> IpInt])
    @@ (3 :> [text |-> Ip6Text, int |-> Ip6Int])
    @@ (4 :> [text |-> LoopbackText, int |-> LoopbackInt])

\* a whole <revision> with the id n
RevisionChunkOf(n, contributor) ==
    <<StartEv("revision", NoAttrs)>> \o IdLeaf(n)
    \o Leaf("timestamp", NoAttrs, TS1Text) \o contributor
    \o Leaf("text", NoAttrs, <<120>>) \o <<EndEv("revision")>>

\* a whole <revision> with the id 1
RevisionChunk == RevisionChunkOf(1, UserChunk)

RevisionChunks ==
    {RevisionChunk}
    \cup {RevisionChunkOf(n, <<StartEv("contributor", NoAttrs)>>
                              \o Leaf("ip", NoAttrs, IpOfRevision[n].text)
                              \o <<EndEv("contributor")>>) :
             n \in DOMAIN IpOfRevision}

\* plan "free": any well-formed sequence of events within the bounds
FreeChoices(x) ==
    {Deliver(<<[k |-> "s", tag |-> Tag(ns, nm), attrs |-> NoAttrs, data |-> <<>>]>>,
             [x EXCEPT !.elems = @ + 1]) :
        nm \in IF x.elems < MaxElems /\ Len(x.open) < MaxDepth
                  /\ (x.open # <<>> \/ x.elems = 0)
               THEN FreeNames ELSE {},
        ns \in IF x.open = <<>> THEN {XMLNS, ""} ELSE {XMLNS}}
    \cup (IF x.open # <<>> /\ x.texts < MaxTexts
          THEN {Deliver(<<TextEv(<<49>>)>>, [x EXCEPT !.texts = @ + 1])}
          ELSE {})
    \cup (IF x.open # <<>> /\ x.items < MaxItems
          THEN {Deliver(c, [x EXCEPT !.items = @ + 1]) : c \in RevisionChunks}
          ELSE {})
    \cup (IF x.open # <<>>
          THEN {Deliver(<<EndEv(x.open[Len(x.open)])>>, x)}
          ELSE {})

\* the events the parser may deliver next, each with the document after it
NextEvents(x) ==
    IF x.done THEN {}
    ELSE IF x.script # <<>> THEN {Deliver(x.script, x)}
    ELSE IF x.plan = "free" THEN FreeChoices(x)
    ELSE IF x.open = <<>> THEN RootChoices(x)
    ELSE IF x.plan = "namespaces" THEN NamespaceChoices(x)
    ELSE IF Len(x.open) = 1 THEN DumpChoices(x)
    ELSE IF Len(x.open) = 2 THEN PageChoices(x)
    ELSE ItemChoices(x)

(***************************************************************************)
(* The program: LevitationImport.__init__ from the shell, Pass 1 one       *)
(* parser event at a time, Pass 2 one commit at a time.                    *)
(***************************************************************************)
\* no call yet
Idle == [fn |-> "none"]

DefaultOptions ==
    [ONLYBLOB |-> FALSE, IMPORT_MAX |-> 100, SORT |-> FALSE,
     DIRSTRUCT |-> "levitation", DEEPNESS |-> 3, AUTHOR_DOMAIN |-> <<>>,
     WIKITIME |-> FALSE]

\* the command lines a behaviour chooses from
OptionChoices ==
    {[DefaultOptions EXCEPT !.ONLYBLOB = TRUE],
     [DefaultOptions EXCEPT !.ONLYBLOB = TRUE, !.IMPORT_MAX = 1],
     DefaultOptions,
     [DefaultOptions EXCEPT !.SORT = TRUE, !.DEEPNESS = 1, !.WIKITIME = TRUE],
     [DefaultOptions EXCEPT !.DIRSTRUCT = "github", !.AUTHOR_DOMAIN = <<101, 46, 111, 114, 103>>]}

NoStack == [active |-> NullFrame, stack |-> <<>>]

\* BlobWriter(meta)
NoWriter == [imported |-> 0, canceled |-> FALSE, page |-> <<>>]

\* StackManager((self.start_root, None, None))
InitialStack ==
    [active |-> Frame([h |-> "start_root", c |-> ""], None, None), stack |-> <<>>]

Step1 == [type |-> "progress", text |-> "Step 1: Creating blobs."]

Step2 == [type |-> "progress", text |-> "Step 2: Writing commits."]

\* no process is running
NoProcess ==
    /\ opts = DefaultOptions
    /\ sm = NoStack
    /\ cap = NoCaptures
    /\ bw = NoWriter
    /\ cm = 0
    /\ fh = {}

\* the stores of the meta dict, each with a file handle of its own
Stores == {"meta", "comm", "uplo", "upco", "user", "page"}

\* a variant of open_file that opens with 'w+b'
open_file_truncating(f) == <<>>

\* open_file(fn), on the bytes f of the file or <<>> when it is absent:
\* the bytes of the file behind the handle; 'r+b' truncates nothing
open_file(f) == f

\* the process ends, by returning or by an uncaught exception
Ends ==
    /\ pc' = "shell"
    /\ meta' = NoMeta
    /\ opts' = DefaultOptions
    /\ sm' = NoStack
    /\ cap' = NoCaptures
    /\ bw' = NoWriter
    /\ cm' = 0
    /\ before' = <<>>

\* __init__ runs to its end: the six fh.close() calls
Exit ==
    /\ Ends
    /\ fh' = {}

\* an exception leaves __init__: the fh.close() calls are not reached
Abort ==
    /\ Ends
    /\ fh' = fh

World == [disk |-> disk, meta |-> meta, stdout |-> stdout, bw |-> bw, err |-> ""]

Init ==
    /\ pc = "shell"
    /\ disk = NoDisk
    /\ meta = NoMeta
    /\ stdout = <<>>
    /\ call = Idle
    /\ ret = ""
    /\ NoProcess
    /\ xml = NoXml("pages")
    /\ seen = <<>>
    /\ before = <<>>

\* LevitationImport.__init__ up to the pass it runs
Start ==
    /\ pc = "shell"
    /\ xml.runs <= MaxRuns
    /\ \E o \in {c \in OptionChoices : c.ONLYBLOB => xml.runs < MaxRuns},
          OVERWRITE \in {FALSE} \cup {disk # NoDisk \/ stdout # <<>>} :
        LET d == IF OVERWRITE THEN NoDisk ELSE disk
            banner == IF o.ONLYBLOB THEN Step1 ELSE Step2
        IN /\ disk' = [s \in DOMAIN d |-> IF s \in Stores THEN open_file(d[s]) ELSE d[s]]
           /\ meta' = IF d.pkl # <<>> THEN d.pkl[1] ELSE NoMeta
           /\ opts' = o
           /\ stdout' = Append(IF OVERWRITE THEN <<>> ELSE stdout, banner)
           /\ seen' = IF OVERWRITE THEN <<>> ELSE seen
           /\ pc' = IF o.ONLYBLOB THEN "pass1" ELSE "pass2"
           /\ sm' = IF o.ONLYBLOB THEN InitialStack ELSE NoStack
           /\ xml' = [NewDocument(xml) EXCEPT
                         !.runs = IF o.ONLYBLOB THEN @ + 1 ELSE MaxRuns + 1]
           /\ call' = [fn |-> "LevitationImport", options |-> o, OVERWRITE |-> OVERWRITE]
           /\ ret' = ""
    /\ fh' = Stores
    /\ UNCHANGED <<cap, bw, cm, before>>

\* StackManager.startElement(tag, attrs)
StartElement ==
    LET Do(n, r) ==
            /\ call' = [fn |-> "startElement", ev |-> n.ev]
            /\ ret' = r.err
            /\ xml' = n.xml
            /\ IF r.err = ""
               THEN /\ sm' = push(sm, r.frame)
                    /\ cap' = r.cap
                    /\ bw' = [bw EXCEPT !.page = r.page]
                    /\ before' = Append(before, sm)
                    /\ UNCHANGED <<pc, meta, opts, cm, fh>>
               ELSE Abort
    IN /\ pc = "pass1"
       /\ \E n \in {e \in NextEvents(xml) : e.ev.k = "s"} :
            Do(n, IF sm.active.s # None
                  THEN OnStart(sm.active.s, n.ev.tag, n.ev.attrs, cap, bw.page)
                  ELSE Started("", NullFrame, cap, bw.page))
       /\ UNCHANGED <<disk, stdout, seen>>

\* StackManager.endElement(name); a CancelException is caught in parse
EndElement ==
    LET \* a <revision> or <upload> of a page, or a <namespace>, ends
        item == IF xml.plan = "pages"
                THEN Len(xml.open) = 3 /\ xml.open[3] \in {"revision", "upload"}
                ELSE xml.plan = "namespaces" /\ Len(xml.open) = 4
        \* history: the item's record is in its store, and whether the
        \* item was processed to the end
        Wrote(r) == r.w.disk.meta # disk.meta \/ r.w.disk.uplo # disk.uplo
        Item(err) == IF xml.plan = "pages" THEN [xml.item EXCEPT !.done = (err = "")]
                     ELSE xml.item
        Do(n, r, p, err) ==
            /\ call' = [fn |-> "endElement", ev |-> n.ev]
            /\ ret' = err
            /\ xml' = n.xml
            /\ disk' = r.w.disk
            /\ stdout' = r.w.stdout
            /\ seen' = IF item /\ (err = "" \/ Wrote(r)) THEN Append(seen, Item(err))
                       ELSE seen
            /\ IF err = ""
               THEN /\ sm' = p[1]
                    /\ cap' = r.cap
                    /\ bw' = r.w.bw
                    /\ meta' = r.w.meta
                    /\ pc' = IF n.xml.done THEN "pass1_ret" ELSE "pass1"
                    /\ before' = SubSeq(before, 1, Len(before) - 1)
                    /\ UNCHANGED <<opts, cm, fh>>
               ELSE IF err = "CancelException" /\ r.w.bw.canceled
               THEN /\ sm' = sm
                    /\ cap' = r.cap
                    /\ bw' = r.w.bw
                    /\ meta' = r.w.meta
                    /\ pc' = "pass1_ret"
                    /\ UNCHANGED <<opts, cm, before, fh>>
               ELSE Abort
        Popped(n, r, p) ==
            Do(n, r, p, IF r.w.err # "" THEN r.w.err
                        ELSE IF p = <<>> THEN "XMLError" ELSE "")
    IN /\ pc = "pass1"
       /\ \E n \in {e \in NextEvents(xml) : e.ev.k = "e"} :
            Popped(n,
                   IF sm.active.e # None
                   THEN OnEnd(sm.active.e, World, cap, opts.IMPORT_MAX)
                   ELSE Ended(World, cap),
                   pop(sm))

\* StackManager.characters(content)
Characters ==
    /\ pc = "pass1"
    /\ \E n \in {e \in NextEvents(xml) : e.ev.k = "t"} :
        /\ call' = [fn |-> "characters", ev |-> n.ev]
        /\ ret' = ""
        /\ xml' = n.xml
        /\ cap' = IF sm.active.t # None
                  THEN handle_text(sm.active.t.c, n.ev.data, cap)
                  ELSE cap
    /\ UNCHANGED <<pc, disk, meta, stdout, opts, sm, bw, cm, seen, before, fh>>

\* the parser raises: the input is not well-formed, or ends early (here:
\* between the children of the root)
ParserError ==
    /\ pc = "pass1"
    /\ ~xml.done
    /\ xml.script = <<>>
    /\ Len(xml.open) = 1
    /\ xml.odd < MaxOdd
    /\ xml' = Odd(xml, 1)
    /\ call' = [fn |-> "parser.run"]
    /\ ret' = "ExpatError"
    /\ Abort
    /\ UNCHANGED <<disk, stdout, seen>>

\* parse has returned: pickle.dump of the four keys, the files are closed
Pass1Return ==
    /\ pc = "pass1_ret"
    /\ disk' = [disk EXCEPT !.pkl = <<meta>>]
    /\ call' = [fn |-> "pickle.dump"]
    /\ ret' = ""
    /\ Exit
    /\ UNCHANGED <<stdout, xml, seen>>

\* Committer.work: one iteration of 'for info in infos', or its end
CommitStep ==
    LET Written(info, c) ==
            IF c.err = ""
            THEN /\ stdout' = Append(stdout, c.rec[1])
                 /\ cm' = cm + 1
                 /\ call' = [fn |-> "Committer.work", info |-> <<info>>]
                 /\ ret' = ""
                 /\ UNCHANGED <<pc, meta, opts, sm, cap, bw, before, fh>>
            ELSE /\ call' = [fn |-> "Committer.work", info |-> <<info>>]
                 /\ ret' = c.err
                 /\ stdout' = stdout
                 /\ Abort
        Iterate(info) == Written(info, Commit(info, cm, disk, meta, opts))
        Loop(infos) ==
            IF cm < Len(infos) THEN Iterate(infos[cm + 1])
            ELSE /\ call' = [fn |-> "Committer.work", info |-> <<>>]
                 /\ ret' = ""
                 /\ stdout' = stdout
                 /\ Exit
    IN /\ pc = "pass2"
       /\ Loop(Infos(disk, opts))
       /\ UNCHANGED <<disk, xml, seen>>

Next == Start \/ StartElement \/ EndElement \/ Characters \/ ParserError
        \/ Pass1Return \/ CommitStep

\* a dump of pages
Spec == Init /\ [][Next]_vars

InitNamespaces ==
    /\ pc = "shell"
    /\ disk = NoDisk
    /\ meta = NoMeta
    /\ stdout = <<>>
    /\ call = Idle
    /\ ret = ""
    /\ NoProcess
    /\ xml = NoXml("namespaces")
    /\ seen = <<>>
    /\ before = <<>>

\* a <siteinfo> with any namespaces
SpecNamespaces == InitNamespaces /\ [][Next]_vars

InitEvents ==
    /\ pc = "shell"
    /\ disk = NoDisk
    /\ meta = NoMeta
    /\ stdout = <<>>
    /\ call = Idle
    /\ ret = ""
    /\ NoProcess
    /\ xml = NoXml("free")
    /\ seen = <<>>
    /\ before = <<>>

\* a document of any shape
SpecEvents == InitEvents /\ [][Next]_vars

(***************************************************************************)
(* SpecMark: the mark functions applied to two arbitrary requests.         *)
(***************************************************************************)
MarkKinds == {"revision", "commit", "upload"}

MarkOf(kind, num) ==
    CASE kind = "revision" -> revision_mark(num)
      [] kind = "commit"   -> commit_mark(num)
      [] kind = "upload"   -> upload_mark(num)

InitMark ==
    /\ pc = "mark_args"
    /\ disk = NoDisk
    /\ meta = NoMeta
    /\ stdout = <<>>
    /\ call \in [fn : {"mark"}, k1 : MarkKinds, n1 : 0..MaxNum,
                 k2 : MarkKinds, n2 : 0..MaxNum]
    /\ ret = <<>>
    /\ NoProcess
    /\ xml = NoXml("none")
    /\ seen = <<>>
    /\ before = <<>>

ApplyMarks ==
    /\ pc = "mark_args"
    /\ pc' = "mark_done"
    /\ ret' = <<MarkOf(call.k1, call.n1), MarkOf(call.k2, call.n2)>>
    /\ UNCHANGED <<disk, meta, stdout, call, pipe>>

NextMark == ApplyMarks

SpecMark == InitMark /\ [][NextMark]_vars

\* C3: the marks are positive, each mark function is injective, and the
\* images of revision_mark, upload_mark and commit_mark are pairwise
\* disjoint: two requests get the same mark only if they are the same
\* request (same kind and same number).
MarkInjectivity ==
    pc = "mark_done" =>
        /\ ret[1] > 0 /\ ret[2] > 0
        /\ ret[1] = ret[2] => (call.k1 = call.k2 /\ call.n1 = call.n2)
        /\ ret[1] = (CASE call.k1 = "revision" -> 1 + 3 * call.n1
                       [] call.k1 = "upload"   -> 3 + 3 * call.n1
                       [] call.k1 = "commit"   -> 2 + 3 * call.n1)

MarkInjectivityWitness ==
    /\ pc = "mark_done"
    /\ call.k1 = "upload" /\ call.k2 = "commit"
    /\ call.n1 = 1 /\ call.n2 = 2

(***************************************************************************)
(* SpecStore: calls of StringStore.write and MetaStore.write on one file   *)
(* each, from the empty file.                                              *)
(***************************************************************************)
Rep(c, n) == [i \in 1..n |-> c]

TailPoints == {97, 128512}

Tails == UNION {[1..n -> TailPoints] : n \in 0..MaxTail}

\* texts around the 255-byte limit: padding, then up to MaxTail code points
\* of one or four bytes; and a text of three-byte code points only
StoreTexts ==
    {Rep(97, n) \o t : n \in {0, 254}, t \in Tails} \cup {Rep(8364, 86)}

\* flags: 1, the largest that fits, and 2^32, which does not
StoreFlags == {<<1>>, <<255, 255, 255, 255>>, <<0, 0, 0, 0, 1>>}

T1 == [y |-> 2020, mo |-> 1, d |-> 2, h |-> 3, mi |-> 4, s |-> 5]

T2 == [y |-> 2001, mo |-> 1, d |-> 15, h |-> 0, mi |-> 0, s |-> 0]

\* authors: a user id, an IPv4 address, an IPv6 address, a deleted user
StoreAuthors ==
    { [id |-> <<3>>, name |-> <<<<97>>>>, isip |-> FALSE, isdel |-> FALSE],
      [id |-> <<1, 2, 0, 192>>, name |-> <<>>, isip |-> TRUE, isdel |-> FALSE],
      [id |-> <<1, 0, 0, 0, 0, 0, 0, 0, 0, 0, 0, 0, 184, 13, 1, 32>>,
       name |-> <<>>, isip |-> TRUE, isdel |-> FALSE],
      [id |-> <<>>, name |-> <<>>, isip |-> FALSE, isdel |-> TRUE] }

InitStore ==
    /\ pc = 0
    /\ disk = NoDisk
    /\ meta = NoMeta
    /\ stdout = <<>>
    /\ call = Idle
    /\ ret = <<>>
    /\ NoProcess
    /\ xml = NoXml("none")
    /\ seen = <<>>
    /\ before = <<>>

StoreStringWrite ==
    /\ pc < MaxWrites
    /\ \E id \in 0..MaxSlot, text \in StoreTexts, flags \in StoreFlags :
          LET w == StringStoreWrite(disk.comm, id, text, flags)
          IN /\ disk' = [disk EXCEPT !.comm = w.f]
             /\ call' = [fn |-> "StringStore.write", id |-> id,
                         text |-> text, flags |-> flags, ok |-> w.ok]
    /\ pc' = pc + 1
    /\ UNCHANGED <<meta, stdout, ret, pipe>>

StoreMetaWrite ==
    /\ pc < MaxWrites
    /\ \E rev \in 0..MaxSlot, time \in {T1, T2}, author \in StoreAuthors,
          minor \in BOOLEAN, upload \in BOOLEAN :
          LET w == MetaStoreWrite(disk.meta, FromInt(rev), <<time>>,
                                  FromInt(rev + 1), <<author>>, minor, upload)
          IN /\ disk' = [disk EXCEPT !.meta = w.f]
             /\ call' = [fn |-> "MetaStore.write", id |-> rev,
                         time |-> time, page |-> rev + 1, author |-> author,
                         minor |-> minor, upload |-> upload, ok |-> w.ok]
    /\ pc' = pc + 1
    /\ UNCHANGED <<meta, stdout, ret, pipe>>

NextStore == StoreStringWrite \/ StoreMetaWrite

SpecStore == InitStore /\ [][NextStore]_vars

Width(c) == IF c < 128 THEN 1 ELSE IF c < 2048 THEN 2 ELSE IF c < 65536 THEN 3 ELSE 4

\* the number of bytes of the UTF-8 encoding of the first k code points
ByteLen(text, k) ==
    k + Cardinality({i \in 1..k : Width(text[i]) >= 2})
      + Cardinality({i \in 1..k : Width(text[i]) >= 3})
      + Cardinality({i \in 1..k : Width(text[i]) >= 4})

\* is p the longest prefix of text, in whole code points, whose encoding
\* has at most 255 bytes?
IsLongestFit(p, text) ==
    /\ Len(p) <= Len(text)
    /\ p = SubSeq(text, 1, Len(p))
    /\ ByteLen(text, Len(p)) <= 255
    /\ Len(p) < Len(text) => ByteLen(text, Len(p) + 1) > 255

\* C7: after StringStore.write(I, S, flags), read(I) returns the flags
\* unchanged, len equal to the number of bytes stored and text equal to the
\* longest prefix of S in whole code points that encodes to at most 255
\* bytes; the stored bytes decode (they do not end in a split sequence), and
\* a text that fits is returned whole.
StringRoundTrip ==
    (call.fn = "StringStore.write" /\ call.ok) =>
        LET r == StringStoreRead(disk.comm, call.id)
        IN /\ r.ok
           /\ r.flags = call.flags
           /\ IsLongestFit(r.text, call.text)
           /\ r.len = ByteLen(r.text, Len(r.text))
           /\ ByteLen(call.text, Len(call.text)) <= 255 => r.text = call.text

\* a text that does not fit, and whose cut falls inside a code point of
\* four bytes, has been written and trimmed
StringRoundTripWitness ==
    /\ call.fn = "StringStore.write" /\ call.ok
    /\ call.text = Rep(97, 254) \o <<128512, 97>>
    /\ StringStoreRead(disk.comm, call.id).len = 254

(***************************************************************************)
(* The stream: what the invocations have written to standard output, in    *)
(* order.                                                                  *)
(***************************************************************************)
IsBlob(r) == r.type = "blob"

IsCommit(r) == r.type = "commit"

\* the commits of the stream, in the order of emission
Commits == SelectSeq(stdout, IsCommit)

\* the positions before i of the blobs with the mark m
BlobsBefore(i, m) == {j \in 1..(i - 1) : IsBlob(stdout[j]) /\ stdout[j].mark = m}

\* the position of the last banner of the stream
LastBanner ==
    CHOOSE i \in 1..Len(stdout) :
        /\ stdout[i].type = "progress"
        /\ \A j \in (i + 1)..Len(stdout) : stdout[j].type # "progress"

\* the blobs the running invocation has written
RunBlobs == SelectSeq(SubSeq(stdout, LastBanner + 1, Len(stdout)), IsBlob)

OfThisRun(it) == it.run = xml.runs

\* the revisions and uploads the running invocation has processed
RunItems == SelectSeq(seen, OfThisRun)

\* C1: for every commit in the stream, a blob whose mark is the mark of the
\* commit's M line appears earlier in the stream.
BlobBeforeCommit ==
    \A i \in 1..Len(stdout) :
        IsCommit(stdout[i]) => BlobsBefore(i, stdout[i].blob) # {}

\* C2: the commit numbered C, counting from 0 in the order of emission, has
\* the mark 2 + 3 * C; the first commit has no from line and every later
\* commit has one, with the mark of the commit just before it.
CommitChainLinearity ==
    \A c \in 1..Len(Commits) :
        /\ Commits[c].mark = 2 + 3 * (c - 1)
        /\ Commits[c].from = IF c = 1 THEN <<>> ELSE <<Commits[c - 1].mark>>

\* two commits for the revisions 1 and 3: the empty slots 0 and 2 of the
\* revision store were skipped
CommitChainLinearityWitness ==
    /\ Len(Commits) = 2
    /\ Commits[1].blob = 4
    /\ Commits[2].blob = 10

\* the slots of the revision store that hold a revision
RevisionSlots ==
    {r \in 0..3 : LET d == MetaStoreRead(disk.meta, r)
                  IN d # <<>> /\ d[1].exists}

\* C4: with IMPORT_MAX = N > 0, fewer than N pages are counted while Pass 1
\* handles events; the step that counts the N-th page is the end event of
\* the N-th <page>, it raises the cancellation, which parse catches, and
\* writes nothing; then the blobs of the run are those of the revisions and
\* uploads of the first N pages, the revision store holds the revisions
\* processed and no other, and the only step left is the dump of the global
\* state, after which the process has ended without an error.
CancellationCap ==
    [][ /\ (pc = "pass1" /\ opts.IMPORT_MAX > 0) => bw.imported < opts.IMPORT_MAX
        /\ (pc = "pass1" /\ bw'.canceled) =>
              /\ call'.fn = "endElement"
              /\ call'.ev.tag.name = "page"
              /\ ret' = "CancelException"
              /\ opts.IMPORT_MAX > 0
              /\ bw'.imported = opts.IMPORT_MAX
              /\ xml.pno = opts.IMPORT_MAX
              /\ pc' = "pass1_ret"
              /\ disk' = disk
              /\ stdout' = stdout
        /\ (pc = "pass1_ret" /\ bw.canceled) =>
              /\ Len(RunBlobs) = Len(RunItems)
              /\ \A k \in 1..Len(RunItems) :
                    /\ RunItems[k].done
                    /\ RunItems[k].pno <= opts.IMPORT_MAX
                    /\ (~RunItems[k].upload /\ RunItems[k].hasid)
                          => RunBlobs[k].mark = 1 + 3 * RunItems[k].id
              /\ RevisionSlots
                    = {seen[k].id : k \in {i \in 1..Len(seen) :
                                             ~seen[i].upload /\ seen[i].hasid}}
        /\ pc = "pass1_ret" =>
              /\ call'.fn = "pickle.dump"
              /\ ret' = ""
              /\ pc' = "shell"
              /\ disk' = [disk EXCEPT !.pkl = <<meta>>]
              /\ stdout' = stdout
      ]_vars

\* Pass 1 was cancelled after a page with a revision, and the dump has
\* more pages
CancellationCapWitness ==
    /\ pc = "pass1_ret"
    /\ bw.canceled
    /\ xml.np > xml.pno
    /\ RunBlobs # <<>>

\* no two revisions processed carry the same <id>, and no upload carries
\* an <id>
DistinctIds ==
    \A i, j \in 1..Len(seen) :
        /\ seen[i].upload => ~seen[i].hasid
        /\ (i # j /\ ~seen[i].upload /\ ~seen[j].upload
            /\ seen[i].hasid /\ seen[j].hasid) => seen[i].id # seen[j].id

\* C5: no two blobs of the stream carry the mark that a commit refers to
\* (that there is one is C1), in a dump whose ids are distinct.
OneBlobPerCommit ==
    DistinctIds =>
        \A i \in 1..Len(stdout) :
            IsCommit(stdout[i]) => Cardinality(BlobsBefore(i, stdout[i].blob)) <= 1

(***************************************************************************)
(* The namespace maps.                                                     *)
(***************************************************************************)
IsInverse(nstoid, idtons) ==
    /\ \A k \in DOMAIN idtons :
          idtons[k] \in DOMAIN nstoid /\ nstoid[idtons[k]] = k
    /\ \A n \in DOMAIN nstoid :
          nstoid[n] \in DOMAIN idtons /\ idtons[nstoid[n]] = n

\* the maps of the process, and the maps persisted
MapsInverse ==
    /\ IsInverse(meta.nstoid, meta.idtons)
    /\ disk.pkl # <<>> => IsInverse(disk.pkl[1].nstoid, disk.pkl[1].idtons)

\* C6, as the spec states it: after any sequence of captured <namespace>
\* elements, nstoid is the inverse of idtons.
NamespaceBijection == MapsInverse

\* the <namespace> elements captured so far give each key one name and
\* each name one key
OneToOne ==
    \A i, j \in 1..Len(seen) : (seen[i].key = seen[j].key) <=> (seen[i].name = seen[j].name)

\* C6, amended: when the <namespace> elements captured since the sidecars
\* were last empty give each key one name and each name one key, nstoid is
\* the inverse of idtons, in the process and in the persisted maps, and
\* idtons holds only pairs that were captured.
NamespaceBijectionOneToOne ==
    OneToOne =>
        /\ MapsInverse
        /\ \A k \in DOMAIN meta.idtons :
              \E i \in 1..Len(seen) : seen[i].key = k /\ seen[i].name = meta.idtons[k]

\* a resumed run has reloaded a persisted pair and captured a second one
NamespaceBijectionWitness ==
    /\ pc = "pass1"
    /\ xml.runs = 2
    /\ OneToOne
    /\ disk.pkl # <<>>
    /\ Cardinality(DOMAIN disk.pkl[1].idtons) = 1
    /\ Cardinality(DOMAIN meta.idtons) = 2

(***************************************************************************)
(* The revision store after Pass 1.                                        *)
(***************************************************************************)
\* the revisions processed that carry an <id>
Observed == {i \in 1..Len(seen) : ~seen[i].upload /\ seen[i].hasid}

HandlerStackProtocol ==
    [][ /\ (call'.fn = "startElement" /\ ret' = "") =>
              /\ sm'.stack = Append(sm.stack, sm.active)
              /\ sm'.active =
                    IF sm.active.s = None THEN NullFrame
                    ELSE OnStart(sm.active.s, call'.ev.tag, call'.ev.attrs,
                                 cap, bw.page).frame
        /\ (call'.fn = "endElement" /\ ret' = "") =>
              /\ sm.stack # <<>>
              /\ sm'.stack = SubSeq(sm.stack, 1, Len(sm.stack) - 1)
              /\ sm'.active = sm.stack[Len(sm.stack)]
              /\ sm' = before[Len(before)]
              /\ <<cap', bw', disk', stdout'>>
                    = IF sm.active.e = None THEN <<cap, bw, disk, stdout>>
                      ELSE LET r == OnEnd(sm.active.e, World, cap, opts.IMPORT_MAX)
                           IN <<r.cap, r.w.bw, r.w.disk, r.w.stdout>>
        /\ call'.fn = "characters" => sm' = sm
        /\ pc' = "pass1" => Len(sm'.stack) = Len(xml'.open)
      ]_vars

\* the end event of an element nested in another has been handled, in a
\* document of three elements or more
HandlerStackProtocolWitness ==
    /\ pc = "pass1"
    /\ call.fn = "endElement"
    /\ ret = ""
    /\ Len(sm.stack) = 1
    /\ xml.elems >= 3

(***************************************************************************)
(* The slots of the stores.                                                *)
(***************************************************************************)
\* what MetaStore.read returns for a slot of zeros
EmptyRecord ==
    [rev |-> 0, epoch |-> 0, page |-> 0, user |-> <<>>, minor |-> FALSE,
     isip |-> FALSE, isdel |-> FALSE, upload |-> FALSE, exists |-> FALSE]

\* C8: a write to the slot i of a StringStore or of a MetaStore leaves
\* read(j) as it was for every j other than i, except that in a MetaStore
\* the slots between the old end of the file and i, which read as None
\* before, read as slots never written after; a write that raises leaves
\* the file as it was.
SlotIndependence ==
    [][ /\ call'.fn = "StringStore.write" =>
              /\ ~call'.ok => disk' = disk
              /\ \A j \in 0..(MaxSlot + 1) :
                    j # call'.id =>
                        StringStoreRead(disk'.comm, j) = StringStoreRead(disk.comm, j)
        /\ call'.fn = "MetaStore.write" =>
              /\ ~call'.ok => disk' = disk
              /\ \A j \in 0..(MaxSlot + 1) :
                    j # call'.id =>
                        \/ MetaStoreRead(disk'.meta, j) = MetaStoreRead(disk.meta, j)
                        \/ /\ j < call'.id
                           /\ MetaStoreRead(disk.meta, j) = <<>>
                           /\ MetaStoreRead(disk'.meta, j) = <<EmptyRecord>>
      ]_vars

\* the slot 2 of a MetaStore was written after the slot 0: the slot 0
\* reads as written, the slot 1 as never written
SlotIndependenceWitness ==
    /\ pc = 2
    /\ call.fn = "MetaStore.write"
    /\ call.ok
    /\ call.id = 2
    /\ MetaStoreRead(disk.meta, 0) # <<>>
    /\ MetaStoreRead(disk.meta, 0)[1].page = 1
    /\ MetaStoreRead(disk.meta, 1) = <<EmptyRecord>>

(***************************************************************************)
(* The page of the BlobWriter.                                             *)
(***************************************************************************)
\* a <page> child of <mediawiki> is open
PageOpen ==
    Len(xml.open) >= 2 /\ xml.open[1] = "mediawiki" /\ xml.open[2] = "page"

\* the end handler of the captures that start_page makes
PageFinish == {[h |-> "Capture.finish", c |-> c] : c \in {"title", "id", "revision", "upload"}}

\* C11: while Pass 1 handles events, BlobWriter.page is set exactly while a
\* <page> child of <mediawiki> is open; a Page is made only by the start
\* event of such a <page>, when there is none, and dropped only by its end
\* event or with the process; the callbacks of the title, id, revision and
\* upload captures are called only while the page is set.
SingleAlivePage ==
    [][ /\ pc = "pass1" => ((bw.page # <<>>) <=> PageOpen)
        /\ (pc = "pass1" /\ bw.page = <<>> /\ bw'.page # <<>>) =>
              /\ call'.fn = "startElement"
              /\ call'.ev.tag.name = "page"
              /\ xml.open = <<"mediawiki">>
              /\ bw'.page = <<NewPage>>
        /\ (pc = "pass1" /\ bw.page # <<>> /\ bw'.page = <<>>) =>
              \/ pc' = "shell"
              \/ /\ call'.fn = "endElement"
                 /\ call'.ev.tag.name = "page"
                 /\ xml.open = <<"mediawiki", "page">>
        /\ (pc = "pass1" /\ call'.fn = "endElement" /\ sm.active.e \in PageFinish) =>
              bw.page # <<>> /\ PageOpen
      ]_vars

\* the revision callback has returned in the second page of a dump
SingleAlivePageWitness ==
    /\ pc = "pass1"
    /\ bw.page # <<>>
    /\ call.fn = "endElement"
    /\ call.ev.tag.name = "revision"
    /\ ret = ""
    /\ xml.pno = 2


(***************************************************************************)
(* File handles.                                                           *)
(***************************************************************************)
\* C12: when the process has ended, by normal completion, by IMPORT_MAX
\* cancellation or by a fatal error in either pass, none of the handles
\* opened at its start is still open
ResourceRelease ==
    pc = "shell" => fh = {}

\* what the code does: the handles are closed when the pass returns,
\* cancellation included
ReleaseOnReturn ==
    (pc = "shell" /\ ret = "") => fh = {}

ReleaseOnReturnWitness ==
    /\ pc = "shell" /\ ret = "" /\ fh = {}
    /\ call.fn = "pickle.dump" /\ stdout # <<>> /\ xml.done = FALSE


(***************************************************************************)
(* Resuming and overwriting.                                               *)
(***************************************************************************)
Launch == pc = "shell" /\ pc' # "shell"

\* the ids of the records of store s that the next step of Pass 1 writes
Touched(s) ==
    LET it  == xml.item
        top == xml.open[Len(xml.open)]
        uid == IF it.isip \/ it.isdel THEN {} ELSE {Val(it.uid)}
    IN IF pc # "pass1" \/ Len(xml.open) # 3 THEN {}
       ELSE IF top = "id" THEN (IF s = "page" THEN {xml.pno} ELSE {})
       ELSE IF top = "revision"
       THEN (IF s \in {"meta", "comm"} THEN {it.id}
             ELSE IF s = "user" THEN uid ELSE {})
       ELSE IF top = "upload"
       THEN (IF s \in {"uplo", "upco"}
             THEN {IF it.hasid THEN it.id ELSE meta.max_upload + 1}
             ELSE IF s = "user" THEN uid ELSE {})
       ELSE {}

\* C13: a start without --overwrite leaves the seven files as they are, so
\* that every read returns what it returned at the end of the earlier run,
\* and loads domain, nstoid, idtons and max_upload from the pickle file if
\* there is one; a start with --overwrite leaves the seven files empty, so
\* that every read returns the empty record, and the defaults in the meta
\* dict; and a step of a run changes what read returns only for the ids it
\* writes (and for ids past the end of a MetaStore file, which read as
\* slots never written once the file reaches them).
ResumeOrOverwrite ==
    [][ /\ (Launch /\ ~call'.OVERWRITE) =>
              /\ \A s \in Stores \cup {"pkl"} : disk'[s] = disk[s]
              /\ \A id \in 0..MaxNum :
                    /\ \A s \in {"meta", "uplo"} :
                          MetaStoreRead(disk'[s], id) = MetaStoreRead(disk[s], id)
                    /\ \A s \in Stores \ {"meta", "uplo"} :
                          StringStoreRead(disk'[s], id) = StringStoreRead(disk[s], id)
              /\ meta' = IF disk.pkl # <<>> THEN disk.pkl[1] ELSE NoMeta
        /\ (Launch /\ call'.OVERWRITE) =>
              /\ \A s \in Stores \cup {"pkl"} : disk'[s] = <<>>
              /\ \A id \in 0..MaxNum :
                    /\ \A s \in {"meta", "uplo"} : MetaStoreRead(disk'[s], id) = <<>>
                    /\ \A s \in Stores \ {"meta", "uplo"} :
                          StringStoreRead(disk'[s], id) = StringStoreRead(<<>>, 0)
              /\ meta' = NoMeta
        /\ ~Launch =>
              \A id \in 0..MaxNum :
                 /\ \A s \in {"meta", "uplo"} :
                       id \notin Touched(s) =>
                          \/ MetaStoreRead(disk'[s], id) = MetaStoreRead(disk[s], id)
                          \/ /\ MetaStoreRead(disk[s], id) = <<>>
                             /\ MetaStoreRead(disk'[s], id) = <<EmptyRecord>>
                 /\ \A s \in Stores \ {"meta", "uplo"} :
                       id \notin Touched(s) =>
                          StringStoreRead(disk'[s], id) = StringStoreRead(disk[s], id)
      ]_vars

\* a run has started without --overwrite on the files of a run that stored
\* revision 1 and the namespaces
ResumeOrOverwriteWitness ==
    /\ pc \in {"pass1", "pass2"}
    /\ call.fn = "LevitationImport" /\ ~call.OVERWRITE
    /\ MetaStoreRead(disk.meta, 1) # <<>>
    /\ disk.pkl # <<>> /\ meta = disk.pkl[1] /\ meta # NoMeta


(***************************************************************************)
(* The layout of the revision record.                                      *)
(***************************************************************************)
\* the n bytes of the MetaStore file after the first off + a, 0 past its end
Field(off, a, n) ==
    [k \in 1..n |-> IF off + a + k <= Len(disk.meta) THEN disk.meta[off + a + k] ELSE 0]

\* MetaStore.write(R, ...) has just returned: the record of R is the width
\* bytes of the file from the offset R * width, with rev_id, epoch and
\* page_id in four bytes each, author_hi and author_lo in eight bytes each
\* and the flags in the last byte; the file ends where the record ends if
\* nothing was written further on; and read(j) is None exactly for the j
\* whose width bytes from j * width are not all within the file
RecordLayout(width) ==
    (call.fn = "MetaStore.write" /\ call.ok) =>
        LET off == call.id * width
            d   == MetaStoreRead(disk.meta, call.id)
        IN /\ Len(disk.meta) >= off + width
           /\ pc = 1 => Len(disk.meta) = off + width
           /\ Val(Field(off, 0, 4)) = call.id
           /\ Val(Field(off, 4, 4)) = timegm(call.time)
           /\ Val(Field(off, 8, 4)) = call.page
           /\ Field(off, 12, 8) = PackLE(Trim(Take(Drop(call.author.id, 8), 8)), 8)
           /\ Field(off, 20, 8) = PackLE(Trim(Take(call.author.id, 8)), 8)
           /\ Field(off, width - 1, 1)
                 = <<MetaFlags(call.author, call.minor, call.upload)>>
           /\ \A j \in 0..(MaxSlot + 1) :
                 (MetaStoreRead(disk.meta, j) = <<>>) <=> (Len(disk.meta) < (j + 1) * width)
           /\ d # <<>>
           /\ d[1].rev = Val(Field(off, 0, 4))
           /\ d[1].epoch = Val(Field(off, 4, 4))
           /\ d[1].page = Val(Field(off, 8, 4))
           /\ d[1].minor = (Field(off, width - 1, 1)[1] % 2 = 1)

StoredRev(f, j) == Val(SubSeq(f, j * MetaStructSize + 1, j * MetaStructSize + 4))

\* the epoch stored in the slot j of the store file f
StoredEpoch(f, j) == Val(SubSeq(f, j * MetaStructSize + 5, j * MetaStructSize + 8))

\* the slots of f that lie within the file and hold a rev_id other than 0,
\* in ascending order
OccupiedSlots(f) ==
    SelectSeq([i \in 1..(Len(f) \div MetaStructSize) |-> i - 1],
              LAMBDA j : StoredRev(f, j) # 0)

\* what the commit of an occupied slot shows of it
SlotCommit(upload, f, j) ==
    [upload |-> upload, rev |-> StoredRev(f, j), epoch |-> StoredEpoch(f, j),
     blob |-> IF upload THEN 3 + 3 * StoredRev(f, j) ELSE 1 + 3 * StoredRev(f, j)]

\* the occupied slots of the revision store, then those of the upload store
ScanOrder ==
    [k \in 1..Len(OccupiedSlots(disk.meta)) |->
        SlotCommit(FALSE, disk.meta, OccupiedSlots(disk.meta)[k])]
    \o [k \in 1..Len(OccupiedSlots(disk.uplo)) |->
        SlotCommit(TRUE, disk.uplo, OccupiedSlots(disk.uplo)[k])]

ShownBy(c) ==
    [upload |-> c.msg.upload, rev |-> c.msg.rev, epoch |-> c.epoch, blob |-> c.blob]

\* C15: with SORT off, the commits Committer.work has emitted are at every
\* point those of the first occupied slots (rev_id other than 0) in the
\* order of the scan, one each: the revision store in ascending slot order,
\* then the upload store in ascending slot order, slots with rev_id 0 left
\* out and every slot within the file reached; every iteration emits the
\* next one or raises, and work returns only when every occupied slot of
\* both files has its commit.
ScanCoverage ==
    [][ (pc = "pass2" /\ ~opts.SORT) =>
           /\ Len(Commits) = cm
           /\ cm <= Len(ScanOrder)
           /\ \A k \in 1..Len(Commits) : ShownBy(Commits[k]) = ScanOrder[k]
           /\ ret' = "" =>
                 IF pc' = "shell" THEN cm = Len(ScanOrder) /\ stdout' = stdout
                 ELSE /\ Len(stdout') = Len(stdout) + 1
                      /\ ShownBy(stdout'[Len(stdout')]) = ScanOrder[cm + 1]
           /\ disk' = disk
      ]_vars

\* Pass 2 without SORT has returned: revision 3, then upload 1; the slots
\* 0 to 2 of the revision store and the slot 0 of the upload store hold
\* rev_id 0
ScanCoverageWitness ==
    /\ pc = "shell" /\ call.fn = "Committer.work" /\ ret = ""
    /\ Len(Commits) = 2
    /\ Commits[1].committime = <<>>
    /\ Commits[1].msg.rev = 3 /\ ~Commits[1].msg.upload /\ Commits[1].blob = 10
    /\ Commits[2].msg.rev = 1 /\ Commits[2].msg.upload /\ Commits[2].blob = 6
    /\ Len(disk.meta) = 4 * MetaStructSize
    /\ Len(disk.uplo) = 2 * MetaStructSize


\* the place in the sorted order of the k-th record of the scan: after the
\* records of an earlier epoch and after the earlier records of its epoch
SortedPlace(k) ==
    1 + Cardinality({j \in 1..Len(ScanOrder) : ScanOrder[j].epoch < ScanOrder[k].epoch})
      + Cardinality({j \in 1..(k - 1) : ScanOrder[j].epoch = ScanOrder[k].epoch})

\* C16: with SORT on, the commits are those of the same records as without
\* SORT (the occupied slots of the revision store, then of the upload
\* store), emitted in non-decreasing epoch order, records of equal epoch in
\* the order of the scan; the commit numbered C in that order has the mark
\* 2 + 3 * C and, but for the first, a from line with the mark of the
\* commit before it; work returns only when every record has its commit.
SortedCommitOrder ==
    [][ (pc = "pass2" /\ opts.SORT) =>
           /\ Len(Commits) = cm
           /\ cm <= Len(ScanOrder)
           /\ \A k \in 1..Len(ScanOrder) :
                 SortedPlace(k) <= cm => ShownBy(Commits[SortedPlace(k)]) = ScanOrder[k]
           /\ \A c \in 1..Len(Commits) :
                 /\ c > 1 => Commits[c - 1].epoch <= Commits[c].epoch
                 /\ Commits[c].mark = 2 + 3 * (c - 1)
                 /\ Commits[c].from = IF c = 1 THEN <<>> ELSE <<Commits[c - 1].mark>>
           /\ ret' = "" =>
                 IF pc' = "shell" THEN cm = Len(ScanOrder) /\ stdout' = stdout
                 ELSE /\ Len(stdout') = Len(stdout) + 1
                      /\ \E k \in 1..Len(ScanOrder) :
                            /\ SortedPlace(k) = cm + 1
                            /\ ShownBy(stdout'[Len(stdout')]) = ScanOrder[k]
           /\ disk' = disk
      ]_vars

\* Pass 2 with SORT has returned: revision 3 of 2001 was committed before
\* revision 1 of 2020
SortedCommitOrderWitness ==
    /\ pc = "shell" /\ call.fn = "Committer.work" /\ ret = ""
    /\ Len(Commits) = 2
    /\ Commits[1].committime # <<>>
    /\ Commits[1].msg.rev = 3 /\ Commits[1].epoch = TS2Epoch
    /\ Commits[2].msg.rev = 1 /\ Commits[2].epoch = TS1Epoch
    /\ Commits[2].from = <<Commits[1].mark>>


(***************************************************************************)
(* The author of a commit.                                                 *)
(***************************************************************************)
\* the record of the commit c in its store file: the flags byte and the
\* author id, author_lo before author_hi, as an integer
CommitStore(c) == IF c.msg.upload THEN disk.uplo ELSE disk.meta

StoredFlags(c) == CommitStore(c)[c.msg.rev * MetaStructSize + MetaStructSize]

StoredUser(c) ==
    Trim(SubSeq(CommitStore(c), c.msg.rev * MetaStructSize + 21,
                c.msg.rev * MetaStructSize + 28)
         \o SubSeq(CommitStore(c), c.msg.rev * MetaStructSize + 13,
                   c.msg.rev * MetaStructSize + 20))

\* authoruid, as C17 gives it
SelectedUid(c) ==
    IF (StoredFlags(c) \div 2) % 2 = 1 THEN <<105, 112, 45>> \o c.author
    ELSE IF (StoredFlags(c) \div 4) % 2 = 1 THEN <<100, 101, 108, 101, 116, 101, 100>>
    ELSE <<117, 105, 100, 45>> \o Decimal(Val(StoredUser(c)))

\* C17: for every commit of Pass 2: if the isip flag of its record is set,
\* the author is the address in text form and authoruid is "ip-" + author,
\* whatever isdel is; else if isdel is set, the author is "[deleted user]"
\* and authoruid is "deleted"; otherwise authoruid is "uid-" + the user id
\* in decimal and the author is the text of the user store at that id.
\* The email is authoruid + "@" + AUTHOR_DOMAIN when AUTHOR_DOMAIN is not
\* empty, else authoruid + "@git." + domain.
AuthorSelection ==
    pc = "pass2" =>
        \A k \in 1..Len(Commits) :
            LET c == Commits[k]
                isip  == (StoredFlags(c) \div 2) % 2 = 1
                isdel == (StoredFlags(c) \div 4) % 2 = 1
            IN /\ isip => c.author = ip_address_str(StoredUser(c))
               /\ (~isip /\ isdel) =>
                     c.author = <<91, 100, 101, 108, 101, 116, 101, 100, 32, 117,
                                  115, 101, 114, 93>>
               /\ (~isip /\ ~isdel) =>
                     c.author = StringStoreRead(disk.user, Val(StoredUser(c))).text
               /\ c.email = IF opts.AUTHOR_DOMAIN # <<>>
                            THEN SelectedUid(c) \o <<64>> \o opts.AUTHOR_DOMAIN
                            ELSE SelectedUid(c) \o <<64, 103, 105, 116, 46>>
                                 \o meta.domain[1]

\* two commits: one of a deleted contributor with an address, whose author
\* is the address, and one of a user, with their name; no AUTHOR_DOMAIN
AuthorSelectionWitness ==
    /\ pc = "pass2" /\ Len(Commits) = 2
    /\ opts.AUTHOR_DOMAIN = <<>>
    /\ \E k \in 1..2 :
          /\ StoredFlags(Commits[k]) = 6
          /\ Commits[k].author = IpText
          /\ Commits[k].email = <<105, 112, 45>> \o IpText
                                \o <<64, 103, 105, 116, 46, 119, 46, 111, 114, 103>>
          /\ Commits[3 - k].author = <<97>>
          /\ Commits[3 - k].email = <<117, 105, 100, 45, 51, 64, 103, 105, 116, 46,
                                      119, 46, 111, 114, 103>>


(***************************************************************************)
(* The path of a commit.                                                   *)
(***************************************************************************)
RECURSIVE HexDirectories(_, _, _)
\* one directory for each of the code points k..n of the title
HexDirectories(title, k, n) ==
    IF k > n \/ k > Len(title) THEN <<>>
    ELSE <<47>> \o HexBytes(Utf8(title[k])) \o HexDirectories(title, k + 1, n)

Slashless(t) == [i \in 1..Len(t) |-> IF t[i] = 47 THEN 28 ELSE t[i]]

\* the path C18 gives for the namespace ns and the title of a page
ClaimedPath(ns, title, upload) ==
    Slashless(IntStr(ns) \o <<45>> \o meta.idtons[ns])
    \o HexDirectories(title, 1, opts.DEEPNESS)
    \o <<47>> \o Slashless(title)
    \o (IF upload THEN <<>> ELSE <<46, 109, 101, 100, 105, 97, 119, 105, 107, 105>>)

\* C18: under the levitation policy the path of every commit is
\* "<nsid>-<nsname>" with "/" replaced by U+001C, one directory for each of
\* the first DEEPNESS code points of the title, named by the lowercase hex
\* of the code point's UTF-8 bytes, and the title with "/" replaced by
\* U+001C, followed by ".mediawiki" for a revision and by nothing for an
\* upload.
LevitationPath ==
    (pc = "pass2" /\ opts.DIRSTRUCT = "levitation") =>
        \A k \in 1..Len(Commits) :
            Commits[k].path
              = ClaimedPath(StringStoreRead(disk.page, Commits[k].msg.page).flags,
                            StringStoreRead(disk.page, Commits[k].msg.page).text,
                            Commits[k].msg.upload)

\* the part the code keeps: the paths of the uploads of a titled page
LevitationPathOfUploads ==
    (pc = "pass2" /\ opts.DIRSTRUCT = "levitation") =>
        \A k \in 1..Len(Commits) :
            (/\ Commits[k].msg.upload
             /\ StringStoreRead(disk.page, Commits[k].msg.page).text # <<>>) =>
                Commits[k].path
                  = ClaimedPath(StringStoreRead(disk.page, Commits[k].msg.page).flags,
                                StringStoreRead(disk.page, Commits[k].msg.page).text,
                                TRUE)


(***************************************************************************)
(* The namespace of a title.                                               *)
(***************************************************************************)
\* the end of the <title> of a page is next, after its text
TitleEnds ==
    /\ pc = "pass1" /\ xml.open = <<"mediawiki", "page", "title">>
    /\ call.fn = "characters"

Colons(t) == {i \in 1..Len(t) : t[i] = 58}

FirstColon(t) == CHOOSE i \in Colons(t) : \A j \in Colons(t) : i <= j

Prefixed(t) ==
    Colons(t) # {} /\ SubSeq(t, 1, FirstColon(t) - 1) \in DOMAIN meta.nstoid

\* the page has the namespace of the prefix of t and the rest of t as title
RoutedByPrefix(page, t) ==
    /\ page # <<>>
    /\ page[1].nsid = meta.nstoid[SubSeq(t, 1, FirstColon(t) - 1)]
    /\ page[1].title = SubSeq(t, FirstColon(t) + 1, Len(t))

\* the page has the namespace of the empty name and t as title
RoutedToMain(page, t) ==
    /\ page # <<>>
    /\ <<>> \in DOMAIN meta.nstoid
    /\ page[1].nsid = meta.nstoid[<<>>]
    /\ page[1].title = t

\* C19, as the spec states it: setTitle(T) splits T at the first ":"; if
\* there is one and the prefix is a key of nstoid, the page gets nsid =
\* nstoid[prefix] and title = the suffix; in every other case it gets nsid
\* = nstoid[""] and title = T.
TitleRouting ==
    [][ TitleEnds =>
           IF Prefixed(call.ev.data) THEN RoutedByPrefix(bw'.page, call.ev.data)
           ELSE RoutedToMain(bw'.page, call.ev.data)
      ]_vars

\* C19, amended: as above when the prefix is a key of nstoid; in the other
\* cases the page gets nsid = nstoid[""] and title = T if "" is a key of
\* nstoid, and if it is not (no namespace with an empty name has been read)
\* setTitle raises KeyError, which ends the run.
TitleRoutingWithMain ==
    [][ TitleEnds =>
           IF Prefixed(call.ev.data)
           THEN ret' = "" /\ RoutedByPrefix(bw'.page, call.ev.data)
           ELSE IF <<>> \in DOMAIN meta.nstoid
           THEN ret' = "" /\ RoutedToMain(bw'.page, call.ev.data)
           ELSE ret' = "KeyError" /\ pc' = "shell"
      ]_vars

\* the title 'T:A:B' has put a page in the namespace 1 with the title 'A:B'
TitleRoutingWitness ==
    /\ pc = "pass1" /\ call.fn = "endElement" /\ call.ev.tag.name = "title"
    /\ bw.page # <<>>
    /\ bw.page[1].fulltitle = <<84, 58, 65, 58, 66>>
    /\ bw.page[1].nsid = <<1>>
    /\ bw.page[1].title = <<65, 58, 66>>


(***************************************************************************)
(* The order of the effects of one revision.                               *)
(***************************************************************************)
\* the end of a <revision> or <upload> of a page is the event handled
ItemEnds ==
    /\ pc = "pass1" /\ Len(xml.open) = 3 /\ xml.open[3] \in {"revision", "upload"}
    /\ call'.fn = "endElement"

\* the id the item is stored under
ItemId ==
    IF xml.item.upload /\ ~xml.item.hasid THEN meta.max_upload + 1 ELSE xml.item.id

ItemStore == IF xml.item.upload THEN "uplo" ELSE "meta"

ItemComments == IF xml.item.upload THEN "upco" ELSE "comm"

\* after the step: the MetaStore record of the item is in its store
RecordStored ==
    /\ MetaStoreRead(disk'[ItemStore], ItemId) # <<>>
    /\ MetaStoreRead(disk'[ItemStore], ItemId)[1].rev = ItemId
    /\ MetaStoreRead(disk'[ItemStore], ItemId)[1].epoch = xml.item.epoch

\* after the step: the comment of the item, if it has one, is in its store
CommentStored ==
    xml.item.comment => StringStoreRead(disk'[ItemComments], ItemId).text = <<99>>

\* after the step: the name of the contributor, if it is a user, is in the
\* user store
AuthorStored ==
    (~xml.item.isip /\ ~xml.item.isdel) =>
        StringStoreRead(disk'.user, Val(xml.item.uid)).text = <<97>>

BlobEmitted == Len(stdout') = Len(stdout) + 1 /\ IsBlob(stdout'[Len(stdout')])

\* C20, as the spec states it: the effects of a captured <revision> or
\* <upload> come in the order (1) MetaStore record, (2) comment record if
\* the comment is not empty, (3) author in the user store, (4) blob: the
\* call has not reached an effect unless the effects before it are there.
RevisionStepOrder ==
    [][ ItemEnds =>
           /\ disk'[ItemComments] # disk[ItemComments] => RecordStored
           /\ disk'.user # disk.user => (RecordStored /\ CommentStored)
           /\ BlobEmitted => (RecordStored /\ CommentStored /\ AuthorStored)
      ]_vars

\* C20, amended: the author is recorded in the user store first, while the
\* child elements are read (only for a contributor with neither an ip
\* element nor deleted="deleted"); after the children are read come (1) the
\* MetaStore record, (2) the comment record if the comment is not empty,
\* (3) the blob.
RevisionStepOrderAuthorFirst ==
    [][ ItemEnds =>
           /\ disk'[ItemStore] # disk[ItemStore] => AuthorStored
           /\ disk'[ItemComments] # disk[ItemComments] => (AuthorStored /\ RecordStored)
           /\ BlobEmitted => (AuthorStored /\ RecordStored /\ CommentStored)
           /\ ret' = "" => BlobEmitted
      ]_vars

\* a revision with an element in its <comment> has ended: the name of its
\* contributor is in the user store, no record is in the revision store
RevisionStepOrderWitness ==
    /\ pc = "shell" /\ call.fn = "endElement" /\ call.ev.tag.name = "revision"
    /\ ret = "XMLError"
    /\ StringStoreRead(disk.user, 3).text = <<97>>
    /\ disk.meta = <<>>


(***************************************************************************)
(* The id of an upload.                                                    *)
(***************************************************************************)
\* the id C21 gives the upload that ends: its <id> if it has one, else
\* max_upload + 1
UploadId == IF xml.item.hasid THEN xml.item.id ELSE meta.max_upload + 1

\* C21: an upload without an <id> child gets the id max_upload + 1, and
\* max_upload becomes that id; an upload with an <id> child uses the id of
\* that child; either way the record of the upload is written at the slot
\* of its id in the upload store and its blob has the mark 3 + 3 * id.
UploadIdSynthesis ==
    [][ (ItemEnds /\ xml.item.upload /\ ret' = "") =>
           /\ BlobEmitted
           /\ stdout'[Len(stdout')].mark = 3 + 3 * UploadId
           /\ MetaStoreRead(disk'.uplo, UploadId) # <<>>
           /\ MetaStoreRead(disk'.uplo, UploadId)[1].rev = UploadId
           /\ MetaStoreRead(disk'.uplo, UploadId)[1].upload
           /\ MetaStoreRead(disk'.uplo, UploadId)[1].epoch = xml.item.epoch
           /\ \A j \in 0..MaxNum :
                 j # UploadId =>
                    \/ MetaStoreRead(disk'.uplo, j) = MetaStoreRead(disk.uplo, j)
                    \/ MetaStoreRead(disk'.uplo, j) = <<EmptyRecord>>
           /\ ~xml.item.hasid => meta'.max_upload = UploadId
      ]_vars

\* an upload with the <id> 1 has ended while max_upload was 1: its blob has
\* the mark 6 and the slot 2 of the upload store is not written
UploadIdSynthesisWitness ==
    /\ pc = "pass1" /\ call.fn = "endElement" /\ call.ev.tag.name = "upload"
    /\ ret = ""
    /\ meta.max_upload = 2
    /\ stdout[Len(stdout)].type = "blob" /\ stdout[Len(stdout)].mark = 6
    /\ MetaStoreRead(disk.uplo, 1) # <<>>
    /\ MetaStoreRead(disk.uplo, 2) = <<>>


(***************************************************************************)
(* The root element.                                                       *)
(***************************************************************************)
\* C22: the start event of the root element is handled by start_root: if
\* the element is not named mediawiki or is not in the namespace of the
\* export format 0.10, the call raises XMLError with no frame pushed, no
\* output and no file written, and the exception ends the process (parse
\* does not catch it: the pickle file is not written); otherwise the call
\* returns and the frame of the root is pushed.
RootCheck ==
    [][ (pc = "pass1" /\ xml.open = <<>> /\ call'.fn = "startElement") =>
           /\ sm = InitialStack
           /\ IF call'.ev.tag.ns # XMLNS \/ call'.ev.tag.name # "mediawiki"
              THEN /\ ret' = "XMLError"
                   /\ pc' = "shell"
                   /\ sm' = NoStack
                   /\ disk' = disk
                   /\ stdout' = stdout
                   /\ fh' = Stores
              ELSE /\ ret' = ""
                   /\ pc' = "pass1"
                   /\ sm' = [active |-> CasesFrame("mediawiki"),
                             stack |-> <<InitialStack.active>>]
                   /\ disk' = disk
                   /\ stdout' = stdout
      ]_vars

\* a root named mediawiki outside the namespace has ended the run: the
\* output holds the banner alone, the files are empty
RootCheckWitness ==
    /\ pc = "shell" /\ call.fn = "startElement" /\ ret = "XMLError"
    /\ call.ev.tag.name = "mediawiki" /\ call.ev.tag.ns # XMLNS
    /\ stdout = <<Step1>>
    /\ disk = NoDisk


(***************************************************************************)
(* Elements no handler matches.                                            *)
(***************************************************************************)
\* the open elements hold one that the Cases object of its parent does not
\* know: a child of <mediawiki> other than page and siteinfo, a child of
\* <page> other than title, id, revision and upload, and so on
Absorbed(open) ==
    /\ Len(open) >= 2
    /\ \/ open[2] \notin CasesKeys("mediawiki")
       \/ /\ Len(open) >= 3
          /\ \/ open[2] = "page" /\ open[3] \notin CasesKeys("page")
             \/ open[2] = "siteinfo" /\ open[3] \notin CasesKeys("siteinfo")
             \/ /\ open[2] = "siteinfo" /\ open[3] = "namespaces"
                /\ Len(open) >= 4 /\ open[4] \notin CasesKeys("namespaces")

\* C23: while an element that no handler matched is open, the null frame
\* is active, and every start, end and text event returns with the
\* captures, the page, the counters, the files and the output unchanged: a
\* start event pushes one more null frame, a text event changes nothing,
\* an end event restores the stack of before the matching start event, and
\* the end event of the unmatched element itself makes the Cases object of
\* its parent active again.
NullFrameAbsorption ==
    [][ (pc = "pass1" /\ Absorbed(xml.open)) =>
           /\ sm.active = NullFrame
           /\ ret' = ""
           /\ pc' = "pass1"
           /\ cap' = cap
           /\ bw' = bw
           /\ meta' = meta
           /\ disk' = disk
           /\ stdout' = stdout
           /\ call'.fn = "startElement" =>
                 sm' = [active |-> NullFrame, stack |-> Append(sm.stack, NullFrame)]
           /\ call'.fn = "characters" => sm' = sm
           /\ call'.fn = "endElement" =>
                 /\ sm' = before[Len(before)]
                 /\ Len(sm'.stack) = Len(sm.stack) - 1
                 /\ ~Absorbed(xml'.open) =>
                       /\ sm'.active.s.h = "Cases"
                       /\ sm'.active.s.c = xml'.open[Len(xml'.open)]
      ]_vars

\* a whole <revision> has ended inside a <page> that is under an unknown
\* element: there is no page, no blob and no record
NullFrameAbsorptionWitness ==
    /\ pc = "pass1"
    /\ call.fn = "endElement" /\ call.ev.tag.name = "revision"
    /\ xml.open = <<"mediawiki", "x", "page">>
    /\ bw.page = <<>>
    /\ cap = NoCaptures
    /\ stdout = <<Step1>>
    /\ disk = NoDisk


(***************************************************************************)
(* The captures.                                                           *)
(***************************************************************************)
RECURSIVE NodePath(_, _)
\* the names of the elements from the root of the DOM down to the node i
NodePath(dom, i) ==
    IF i = 0 THEN <<>> ELSE Append(NodePath(dom, dom[i].parent), dom[i].name)

IsSuffix(s, t) == Len(s) <= Len(t) /\ SubSeq(t, Len(t) - Len(s) + 1, Len(t)) = s

\* no callback has run in the step
NoCallback == <<bw', meta', disk', stdout'>> = <<bw, meta, disk, stdout>>

\* a Cases object has routed the start event of the step to a Capture
CaptureBegins ==
    /\ call'.fn = "startElement" /\ ret' = ""
    /\ sm.active.t = None /\ sm'.active.t # None

\* the end event of the step is the one of a captured element
CaptureEnds == call'.fn = "endElement" /\ sm.active.e.h = "Capture.finish"

\* C24: an element routed to a Capture starts a DOM of its own that holds
\* the element alone; until its end event no callback runs and every start
\* and text event inside it appends one node under the innermost open
\* element, so the DOM holds the content in document order with one text
\* node for each text event; its end event, and no other event, calls the
\* callback once with that DOM, and when the callback returns the Capture
\* is idle again; a call of a Capture raises XMLError exactly when the
\* Capture is not idle.
CaptureDelivery ==
    [][ pc = "pass1" =>
          /\ \A c \in CaptureNames :
                CaptureCall(c, Tag(XMLNS, c), NoAttrs, cap, bw.page).err
                   = IF cap[c] = IdleCapture THEN "" ELSE "XMLError"
          /\ CaptureBegins =>
                LET c == sm'.active.t.c
                IN /\ c = call'.ev.tag.name
                   /\ cap[c] = IdleCapture
                   /\ cap'[c] = [dom |-> <<ElemNode(call'.ev.tag, call'.ev.attrs, 0)>>,
                                 cur |-> 1]
                   /\ sm'.active.e = [h |-> "Capture.finish", c |-> c]
                   /\ NoCallback
          /\ (sm.active.t # None /\ call'.fn \in {"startElement", "characters", "endElement"}) =>
                LET c   == sm.active.t.c
                    dom == cap[c].dom
                    cur == cap[c].cur
                    r   == Callback(c, World, dom)
                IN /\ cur \in 1..Len(dom)
                   /\ NodePath(dom, cur) # <<>>
                   /\ IsSuffix(NodePath(dom, cur), xml.open)
                   /\ call'.fn = "startElement" =>
                         /\ ret' = ""
                         /\ cap'[c].dom = Append(dom, ElemNode(call'.ev.tag, call'.ev.attrs, cur))
                         /\ cap'[c].cur = Len(dom) + 1
                         /\ NoCallback
                   /\ call'.fn = "characters" =>
                         /\ ret' = ""
                         /\ cap'[c].dom = Append(dom, TextNode(call'.ev.data, cur))
                         /\ cap'[c].cur = cur
                         /\ NoCallback
                   /\ (call'.fn = "endElement" /\ ~CaptureEnds) =>
                         /\ ret' = ""
                         /\ cap'[c].dom = dom
                         /\ cap'[c].cur = dom[cur].parent
                         /\ cap'[c].cur # 0
                         /\ NoCallback
                   /\ CaptureEnds =>
                         /\ cur = 1
                         /\ sm.active.e.c = c
                         /\ ret' = r.err
                         /\ disk' = r.disk
                         /\ stdout' = r.stdout
                         /\ ret' = "" =>
                               /\ bw' = r.bw
                               /\ meta' = r.meta
                               /\ cap'[c] = IdleCapture
                               /\ sm'.active.t = None
                   /\ ret' = "" => \A d \in CaptureNames \ {c} : cap'[d] = cap[d]
      ]_vars

\* in one run, a page has had an <id> with the two text events '1' and
\* '1' and then two <revision> elements: each revision has given a blob,
\* and the record of the revision holds the page id 11
CaptureDeliveryWitness ==
    /\ pc = "pass1"
    /\ call.fn = "endElement" /\ call.ev.tag.name = "revision"
    /\ ret = ""
    /\ xml.runs = 1
    /\ xml.open = <<"mediawiki", "page">>
    /\ cap["revision"] = IdleCapture
    /\ Len(stdout) = 3
    /\ stdout[2].type = "blob" /\ stdout[3].type = "blob"
    /\ MetaStoreRead(disk.meta, 1) # <<>>
    /\ MetaStoreRead(disk.meta, 1)[1].page = 11

(***************************************************************************)
(* The page store and the order of the children of a page.                 *)
(***************************************************************************)
\* the end of the <id> of a page is the event handled: setID
PageIdEnds ==
    /\ pc = "pass1" /\ xml.open = <<"mediawiki", "page", "id">>
    /\ call'.fn = "endElement"

\* the end of the last <page> of the dump is the event handled; nothing is
\* written to the page store after it in this run
LastPageEnds ==
    /\ pc = "pass1" /\ xml.open = <<"mediawiki", "page">>
    /\ call'.fn = "endElement"
    /\ xml.pno = xml.np
    /\ bw.page # <<>>

UploadIds == {OccupiedSlots(disk.uplo)[k] : k \in 1..Len(OccupiedSlots(disk.uplo))}

\* an <upload> without <id> ends and is stored: its id is synthesized
SynthesizedUpload ==
    /\ ItemEnds /\ xml.item.upload /\ ~xml.item.hasid
    /\ ret' = ""

\* C26: while a run of the program is in Pass 1, max_upload is at least
\* every id occupied in the upload store, in a first run, in a resumed run
\* and in a run resumed after a run that ended in a fatal error.
UploadIdsFresh ==
    pc \in {"pass1", "pass1_ret"} => \A j \in UploadIds : j <= meta.max_upload

\* the id synthesized for an upload is not occupied in the upload store,
\* and its blob mark is the mark of no blob written before
SynthesizedIdUnused ==
    [][ SynthesizedUpload =>
           /\ (meta.max_upload + 1) \notin UploadIds
           /\ \A k \in 1..Len(stdout) :
                 stdout[k].type = "blob" => stdout[k].mark # stdout'[Len(stdout')].mark
      ]_vars


(***************************************************************************)
(* The addresses of the contributors without an account.                   *)
(***************************************************************************)
\* the commits of the revisions that come from an address
IpCommits == SelectSeq(Commits, LAMBDA c : ~c.msg.upload /\ c.msg.rev \in DOMAIN IpOfRevision)

\* the revision r is stored with the isip flag and the address a as a 128
\* bit integer, MetaStore.read gives the text of a as user, and a commit of
\* r has the text as author and "ip-" + the text + "@" + the domain part
\* as email
RoundTrips(r, a) ==
    /\ (MetaStoreRead(disk.meta, r) # <<>> /\ MetaStoreRead(disk.meta, r)[1].exists) =>
          /\ MetaStoreRead(disk.meta, r)[1].isip
          /\ Trim(SubSeq(disk.meta, r * MetaStructSize + 21, r * MetaStructSize + 28)
                  \o SubSeq(disk.meta, r * MetaStructSize + 13, r * MetaStructSize + 20))
                = a.int
          /\ MetaStoreRead(disk.meta, r)[1].user = a.text
    /\ pc = "pass2" =>
          \A k \in 1..Len(IpCommits) :
              IpCommits[k].msg.rev = r =>
                 /\ IpCommits[k].author = a.text
                 /\ IpCommits[k].email
                       = IF opts.AUTHOR_DOMAIN # <<>>
                         THEN <<105, 112, 45>> \o a.text \o <<64>> \o opts.AUTHOR_DOMAIN
                         ELSE <<105, 112, 45>> \o a.text \o <<64, 103, 105, 116, 46>>
                              \o meta.domain[1]

\* C27: for every revision whose contributor has an <ip> with the IPv4 or
\* IPv6 address A, Pass 1 stores the isip flag and A as a 128 bit integer,
\* MetaStore.read returns the text of A as user, and the commit of the
\* revision has the author A and the email "ip-" + A + "@" + domain part.
IpRoundTrip == \A r \in DOMAIN IpOfRevision : RoundTrips(r, IpOfRevision[r])

\* the same for the addresses of the streams that are not below 2^32 as
\* IPv6 addresses: 192.0.2.1 and 2001:db8::1
IpRoundTripOfWide ==
    \A r \in DOMAIN IpOfRevision :
        (Len(IpOfRevision[r].int) > 4 \/ IpOfRevision[r].text = IpText)
            => RoundTrips(r, IpOfRevision[r])

\* Pass 2 has written the commit of a revision from 2001:db8::1
IpRoundTripOfWideWitness ==
    /\ pc = "pass2"
    /\ Len(IpCommits) = 1
    /\ IpCommits[1].msg.rev = 3
    /\ IpCommits[1].author = Ip6Text

\* Pass 2 has written the commit of a revision from ::1 with the author
\* 0.0.0.1
IpRoundTripLost ==
    /\ pc = "pass2"
    /\ Len(IpCommits) = 1
    /\ IpCommits[1].msg.rev = 4
    /\ IpCommits[1].author = <<48, 46, 48, 46, 48, 46, 49>>

====
